---- MODULE Spec2Model ----
(***************************************************************************)
(* URL classification and caching core of the video downloader:            *)
(*   - VideoInfoCache (src/downloader.py): LRU metadata cache bounded by    *)
(*     entry count and by estimated byte size;                              *)
(*   - ServiceCache, DomainTrie, VideoURL (src/validators.py): TTL cache,   *)
(*     domain trie, pattern store, pattern matcher and classifier.          *)
(* Each component has its own specification (SpecMeta, SpecSvc, ...); the   *)
(* variables of the other components keep their constructed values there.   *)
(***************************************************************************)
EXTENDS Integers, Sequences, FiniteSets, TLC

VARIABLES
    now,                \* time.time(), in seconds
    \* ---- VideoInfoCache (src/downloader.py) ----
    vic_cache,          \* self.cache: OrderedDict as a sequence, oldest first
    cache_size_bytes,   \* self.cache_size_bytes
    last_cleanup,       \* self.last_cleanup
    vic_file,           \* contents of video_cache.json
    vic_ret,            \* what the last VideoInfoCache call did and returned
    vic_uses,           \* history: keys present, by time of last use, oldest first
    \* ---- ServiceCache (src/validators.py) ----
    sc_cache,           \* self.cache: dict as a sequence of [url, service], insertion order
    sc_timestamps,      \* self.timestamps: dict as a sequence of [url, ts], insertion order
    sc_ret,             \* what the last ServiceCache call did and returned
    sc_lastset,         \* history: url -> time of the last set(url, _), -1 if none
    \* ---- DomainTrie (src/validators.py) ----
    root,               \* self.root: path of reversed labels -> '_service' mark ("" if none)
    trie_ret,           \* the last DomainTrie call: its argument and result
    \* ---- VideoURL pattern store (src/validators.py) ----
    URL_PATTERNS,       \* cls.URL_PATTERNS: service -> list of patterns
    cfg_file,           \* contents of url_patterns.json
    store_ret,          \* the last pattern store call and what it returned
    \* ---- VideoURL classifier (src/validators.py) ----
    combined_patterns,  \* cls._combined_patterns: service -> joined pattern text
    compiled_patterns,  \* cls._compiled_patterns: service -> matcher
    patterns_loaded,    \* cls._patterns_loaded
    trie_initialized,   \* cls._trie_initialized
    unknown_log,        \* the lines of the unknown_<service>_urls.log files
    cls_pc,             \* "class", "imported", "import_failed" or "lazy"
    cls_ret,            \* the last classifier call and its outcome
    cls_first,          \* history: a get_service_name call picked for comparison
    \* ---- threads ----
    vic_lock,           \* VideoInfoCache._lock: the thread that holds it, or "free"
    vic_threads,        \* thread -> where it is in VideoInfoCache.get / set
    sc_threads,         \* thread -> where it is in ServiceCache.get / set
    cls_threads,        \* thread -> where it is in get_service_name / is_valid
    cls_counts,         \* history: how often each initialisation step was run
    \* ---- ServiceCache instances of other sizes ----
    sc_max,             \* self.max_size of the ServiceCache instance
    sc_calls,           \* history: the number of calls made on that instance
    \* ---- DownloadManager and the window's handlers (src/downloader.py,
    \* ---- src/gui_dark_methods.py) ----
    download_queue,     \* self.download_queue: the entries, each named by a number
    current_download,   \* self.current_download: the entry its runnable was made
                        \* from, 0 for None
    thread_pool,        \* the runnables started that have not reported finished
    start_button,       \* whether the "download all" button is enabled
    dm_added,           \* history: the number of entries added so far
    dm_started,         \* history: the entries a download was started for
    dm_ret              \* the last handler and what it started, finished, removed

vicVars == <<vic_cache, cache_size_bytes, last_cleanup, vic_file, vic_ret, vic_uses>>
scVars == <<sc_cache, sc_timestamps, sc_ret, sc_lastset>>

trieVars == <<root, trie_ret>>

storeVars == <<URL_PATTERNS, cfg_file, store_ret>>

clsVars == <<combined_patterns, compiled_patterns, patterns_loaded,
             trie_initialized, unknown_log, cls_pc, cls_ret, cls_first>>

dmVars == <<download_queue, current_download, thread_pool, start_button,
            dm_added, dm_started, dm_ret>>

thVars == <<vic_lock, vic_threads, sc_threads, cls_threads, cls_counts, sc_max,
            sc_calls, dmVars>>

vars == <<now, vicVars, scVars, trieVars, storeVars, clsVars, thVars>>

\* The threads that call into the caches and the classifier: the program
\* runs ThreadPoolExecutor(max_workers=4), download threads and the GUI
\* thread; two of them are followed.
Threads == {"t1", "t2"}

\* What the last handler of the download queue did: the entry it started a
\* download for, the entry whose download reported finished and the entry
\* it removed from the queue, 0 for none.
DmRet(op, started, finished, removed) ==
    [op |-> op, started |-> started, finished |-> finished, removed |-> removed]

\* DownloadManager.__init__ and the window as it is built: an empty queue,
\* no current download, the start button enabled.
DmInit ==
    /\ download_queue = <<>>
    /\ current_download = 0
    /\ thread_pool = {}
    /\ start_button = TRUE
    /\ dm_added = 0
    /\ dm_started = {}
    /\ dm_ret = DmRet("init", 0, 0, 0)

\* No thread is inside a call.
ThIdle ==
    /\ DmInit
    /\ vic_lock = "free"
    /\ vic_threads = [t \in Threads |-> [pc |-> "idle", url |-> "", info |-> ""]]
    /\ sc_threads = [t \in Threads |->
                       [pc |-> "idle", url |-> "", service |-> "", at |-> 0,
                        keys |-> <<>>, phase |-> 0, raised |-> "none"]]
    /\ cls_threads = [t \in Threads |->
                        [pc |-> "idle", op |-> "", url |-> <<>>, i |-> 0]]
    /\ cls_counts = [load |-> 0, compile |-> 0, trie |-> 0]

(***************************************************************************)
(* Generic helpers                                                         *)
(***************************************************************************)
\* Python's None, as a returned value
NoneValue == "None"

Min(a, b) == IF a <= b THEN a ELSE b

\* The sequence s without the elements that satisfy "is k".
Without(s, k) == SelectSeq(s, LAMBDA x : x # k)

(***************************************************************************)
(* VideoInfoCache                                                          *)
(***************************************************************************)
\* VideoInfoCache(max_size=..., max_memory_mb=...): the instance under check
\* is built with small limits (the program's instance uses 50 and 100 MB).
MetaMaxSize == 3
MetaMaxBytes == 4

\* _periodic_cleanup: "if current_time - self.last_cleanup > 300"
CleanupInterval == 300

\* The instants at which the clock is read in SpecMeta: the cleanup interval
\* not yet exceeded (300) and exceeded (301).
MetaTimes == {0, 300, 301}

MetaUrls == {"u1", "u2", "u3", "u4"}

\* Metadata values (info: Dict[str, Any]): "a", "bb" and "huge" are
\* dictionaries of JSON values, "huge" serialising to more than the byte
\* limit of the cache.
Infos == {"a", "bb", "huge"}

\* Values that JSON does not carry as they are: "tup" is a dictionary holding
\* a tuple, "lst" the same dictionary with a list in place of the tuple, and
\* "obj" a dictionary holding an object that json cannot encode.
DiskInfos == {"a", "tup", "obj"}

DiskUrls == {"u1", "u2"}

\* _estimate_size: len(json.dumps(obj, default=str).encode('utf-8'))
EstimateSize(info) ==
    CASE info = "a"    -> 1
      [] info = "bb"   -> 2
      [] info = "huge" -> MetaMaxBytes + 1
      [] info = "tup"  -> 1
      [] info = "lst"  -> 1
      [] info = "obj"  -> 2

\* json.dump(cache_data, f) has no default=: a value it cannot encode raises
\* TypeError.
JsonSerializable(info) == info # "obj"

\* The JSON text written for a value: a tuple is written as an array.
JsonDump(info) == IF info = "tup" THEN "lst" ELSE info

\* json.load: an array is read as a list; the other values as written.
JsonLoad(text) == text

\* _get_key: hashlib.md5(url.encode()).hexdigest(); distinct urls of the
\* model have distinct digests.
GetKey(url) == <<"md5", url>>

VicKeys(c) == {c[i].key : i \in 1..Len(c)}

VicIndex(c, k) == CHOOSE i \in 1..Len(c) : c[i].key = k

\* OrderedDict.popitem(last=False) applied n times, with the byte counter
\* decremented by the estimated size of each entry popped.
RECURSIVE PopOldest(_, _, _)
PopOldest(c, b, n) ==
    IF n = 0 \/ c = <<>>
    THEN [cache |-> c, bytes |-> b]
    ELSE PopOldest(Tail(c), b - EstimateSize(Head(c).info), n - 1)

\* SetEvictCount with the count test off by one ("len(self.cache) > max_size").
RECURSIVE SetEvictCountOffByOne(_, _, _)
SetEvictCountOffByOne(c, b, sz) ==
    IF (Len(c) > MetaMaxSize \/ b + sz > MetaMaxBytes) /\ c # <<>>
    THEN 1 + SetEvictCountOffByOne(Tail(c), b - EstimateSize(Head(c).info), sz)
    ELSE 0

\* The "while" loop of set: the number of entries it pops.
RECURSIVE SetEvictCount(_, _, _)
SetEvictCount(c, b, sz) ==
    IF (Len(c) >= MetaMaxSize \/ b + sz > MetaMaxBytes) /\ c # <<>>
    THEN 1 + SetEvictCount(Tail(c), b - EstimateSize(Head(c).info), sz)
    ELSE 0

\* self.cache[key] = info on an OrderedDict: an existing key keeps its
\* position, a new key goes to the end.
DictAssign(c, k, info) ==
    IF k \in VicKeys(c)
    THEN [c EXCEPT ![VicIndex(c, k)] = [key |-> k, info |-> info]]
    ELSE Append(c, [key |-> k, info |-> info])

\* VideoInfoCache.set up to the insertion (the save that follows is in VicSet).
SetCore(c, b, url, info) ==
    LET sz == EstimateSize(info)
        n  == SetEvictCount(c, b, sz)
        p  == PopOldest(c, b, n)
    IN  [cache   |-> DictAssign(p.cache, GetKey(url), info),
         bytes   |-> p.bytes + sz,
         evicted |-> [i \in 1..n |-> c[i].key]]

\* _periodic_cleanup: exceeded is memory_monitor.is_memory_limit_exceeded().
PeriodicCleanup(c, b, last, t, exceeded) ==
    IF t - last > CleanupInterval
    THEN IF exceeded
         THEN LET n == Len(c) \div 2
                  p == PopOldest(c, b, n)
              IN  [cache |-> p.cache, bytes |-> p.bytes, last |-> t,
                   evicted |-> [i \in 1..Min(n, Len(c)) |-> c[i].key]]
         ELSE [cache |-> c, bytes |-> b, last |-> t, evicted |-> <<>>]
    ELSE [cache |-> c, bytes |-> b, last |-> last, evicted |-> <<>>]

\* The lookup of get: a hit pops the entry and re-inserts it at the end; a
\* miss reaches "return value" with value unbound.
GetLookup(c, url) ==
    LET k == GetKey(url) IN
    IF k \in VicKeys(c)
    THEN LET e == c[VicIndex(c, k)]
         IN  [cache |-> Append(Without(c, e), e), result |-> e.info,
              raised |-> "none"]
    ELSE [cache |-> c, result |-> "None", raised |-> "UnboundLocalError"]

\* History: the keys of uses that are still in the cache c, then key k as
\* the most recent use.
Used(uses, c, k) == Append(SelectSeq(uses, LAMBDA x : x \in VicKeys(c) /\ x # k), k)

\* The cache file: absent, a JSON document (the entries in the order
\* written), or the partial text left by a json.dump that stopped.
VicAbsent == [kind |-> "absent", doc |-> <<>>]
VicPartial == [kind |-> "partial", doc |-> <<>>]
VicDoc(c) == [kind |-> "doc",
              doc |-> [i \in 1..Len(c) |->
                         [key |-> c[i].key, info |-> JsonDump(c[i].info)]]]

VicInit ==
    /\ vic_cache = <<>>
    /\ cache_size_bytes = 0
    /\ last_cleanup = 0
    /\ vic_file = VicAbsent
    /\ vic_ret = [op |-> "init", url |-> "", result |-> "None",
                  raised |-> "none", evicted |-> <<>>, lru |-> <<>>, exceeded |-> FALSE]
    /\ vic_uses = <<>>

\* save_to_file: io is what the file system does: "ok"; "open_fails" (the
\* file keeps its contents); "dump_fails" (open(filename, 'w') has truncated
\* the file and json.dump stops part-way). Failures are logged, not raised.
SaveToFile(file, c, io) ==
    CASE io = "ok"         -> IF \A i \in 1..Len(c) : JsonSerializable(c[i].info)
                              THEN VicDoc(c)
                              ELSE VicPartial
      [] io = "open_fails" -> file
      [] io = "dump_fails" -> VicPartial

\* The value save_to_file returns.
SaveResult(c, io) ==
    io = "ok" /\ \A i \in 1..Len(c) : JsonSerializable(c[i].info)

\* load_from_file: the file absent returns False; a text json.load rejects
\* raises, is logged and returns False; a document replaces self.cache
\* (cache_size_bytes is left as it is).
LoadFromFile(c, file) ==
    IF file.kind = "doc"
    THEN [cache |-> [i \in 1..Len(file.doc) |->
                       [key |-> file.doc[i].key,
                        info |-> JsonLoad(file.doc[i].info)]],
          result |-> TRUE]
    ELSE [cache |-> c, result |-> FALSE]

PyBool(b) == IF b THEN "True" ELSE "False"

\* The outcomes drawn for the save that ends set.
IoOutcomes == {"ok", "dump_fails"}

\* VideoInfoCache.set(url, info), with the save_to_file that ends it.
VicSet(url, info, io) ==
    LET r == SetCore(vic_cache, cache_size_bytes, url, info) IN
    /\ vic_cache' = r.cache
    /\ cache_size_bytes' = r.bytes
    /\ vic_file' = SaveToFile(vic_file, r.cache, io)
    /\ vic_uses' = Used(vic_uses, r.cache, GetKey(url))
    /\ vic_ret' = [op |-> "set", url |-> url, result |-> "None",
                   raised |-> "none", evicted |-> r.evicted,
                   lru |-> SubSeq(vic_uses, 1, Len(r.evicted)),
                   exceeded |-> FALSE]
    /\ UNCHANGED <<now, last_cleanup>>

\* VideoInfoCache.get(url)
VicGet(url, exceeded) ==
    LET p == PeriodicCleanup(vic_cache, cache_size_bytes, last_cleanup, now,
                             exceeded)
        g == GetLookup(p.cache, url)
    IN
    /\ vic_cache' = g.cache
    /\ cache_size_bytes' = p.bytes
    /\ last_cleanup' = p.last
    /\ vic_uses' = IF g.raised = "none"
                   THEN Used(vic_uses, g.cache, GetKey(url))
                   ELSE SelectSeq(vic_uses, LAMBDA x : x \in VicKeys(g.cache))
    /\ vic_ret' = [op |-> "get", url |-> url, result |-> g.result,
                   raised |-> g.raised, evicted |-> p.evicted,
                   lru |-> SubSeq(vic_uses, 1, Len(p.evicted)),
                   exceeded |-> exceeded]
    /\ UNCHANGED <<now, vic_file>>

\* save_to_file() called on its own, the file system doing its part.
VicSave ==
    /\ vic_file' = SaveToFile(vic_file, vic_cache, "ok")
    /\ vic_ret' = [op |-> "save", url |-> "",
                   result |-> PyBool(SaveResult(vic_cache, "ok")),
                   raised |-> "none", evicted |-> <<>>, lru |-> <<>>, exceeded |-> FALSE]
    /\ UNCHANGED <<now, vic_cache, cache_size_bytes, last_cleanup, vic_uses>>

\* load_from_file(), into this cache (fresh FALSE) or into the cache that a
\* new run of the program constructs (fresh TRUE: downloader.py 291, 1658).
VicLoad(fresh) ==
    \E r \in {LoadFromFile(IF fresh THEN <<>> ELSE vic_cache, vic_file)} :
        /\ vic_cache' = r.cache
        /\ cache_size_bytes' = IF fresh THEN 0 ELSE cache_size_bytes
        /\ last_cleanup' = IF fresh THEN now ELSE last_cleanup
        /\ vic_uses' = [i \in 1..Len(r.cache) |-> r.cache[i].key]
        /\ vic_ret' = [op |-> "load", url |-> "", result |-> PyBool(r.result),
                       raised |-> "none", evicted |-> <<>>, lru |-> <<>>, exceeded |-> FALSE]
        /\ UNCHANGED <<now, vic_file>>

\* VideoInfoCache.clear()
VicClear ==
    /\ vic_cache' = <<>>
    /\ cache_size_bytes' = 0
    /\ vic_uses' = <<>>
    /\ vic_ret' = [op |-> "clear", url |-> "", result |-> "None",
                   raised |-> "none", evicted |-> <<>>, lru |-> <<>>, exceeded |-> FALSE]
    /\ UNCHANGED <<now, last_cleanup, vic_file>>

\* The clock moves on to a later instant.
MetaTick ==
    /\ \E t \in MetaTimes : t > now /\ now' = t
    /\ UNCHANGED <<vic_cache, cache_size_bytes, last_cleanup, vic_file, vic_ret,
                   vic_uses>>

(***************************************************************************)
(* Strings                                                                 *)
(* A url, a domain or a pattern text is a sequence of tokens: the          *)
(* separators "://", "/", "." and ":", and words that contain none of      *)
(* them. The string operations of the code act on these sequences.         *)
(***************************************************************************)
\* sub in s, for a one-token sub
Contains(s, sub) == \E i \in 1..Len(s) : s[i] = sub

\* s.startswith(p)
StartsWith(s, p) == Len(s) >= Len(p) /\ SubSeq(s, 1, Len(p)) = p

\* s.split(sep) for a one-token sep: the pieces between the separators,
\* empty pieces included.
RECURSIVE Split(_, _)
Split(s, sep) ==
    IF ~Contains(s, sep) THEN <<s>>
    ELSE LET i == CHOOSE k \in 1..Len(s) :
                    s[k] = sep /\ \A j \in 1..(k - 1) : s[j] # sep
         IN  <<SubSeq(s, 1, i - 1)>> \o Split(SubSeq(s, i + 1, Len(s)), sep)

\* s[::-1]
Reverse(s) == [i \in 1..Len(s) |-> s[Len(s) + 1 - i]]

\* sep.join(parts)
RECURSIVE Join(_, _)
Join(parts, sep) ==
    IF parts = <<>> THEN <<>>
    ELSE IF Len(parts) = 1 THEN parts[1]
    ELSE parts[1] \o <<sep>> \o Join(Tail(parts), sep)

(***************************************************************************)
(* DomainTrie                                                              *)
(***************************************************************************)
\* the service name returned for an unknown url
UnknownService == "Unknown service"

\* A node of the trie is the path of labels that leads to it from the root;
\* root maps every node to its '_service' entry, "" when it has none.
NoMark == ""

Prefixes(parts) == {SubSeq(parts, 1, n) : n \in 0..Len(parts)}

\* DomainTrie.add_domain(domain, service) on the trie r.
AddDomain(r, domain, service) ==
    LET parts == Reverse(Split(domain, ".")) IN
    [p \in (DOMAIN r) \cup Prefixes(parts) |->
        IF p = parts THEN service
        ELSE IF p \in DOMAIN r THEN r[p] ELSE NoMark]

\* The domain text find_service extracts from the url.
ExtractDomain(url) ==
    LET d == IF Contains(url, "://")
             THEN Split(Split(url, "://")[2], "/")[1]
             ELSE Split(url, "/")[1]
    IN  IF StartsWith(d, <<"www", ".">>) THEN SubSeq(d, 3, Len(d)) ELSE d

\* TrieWalk that reads the mark of the last label's node only (an exact
\* match of the whole domain).
RECURSIVE TrieWalkExact(_, _, _)
TrieWalkExact(r, node, parts) ==
    IF parts = <<>>
    THEN IF node # <<>> /\ r[node] # NoMark THEN r[node] ELSE UnknownService
    ELSE LET child == Append(node, Head(parts)) IN
         IF child \in DOMAIN r
         THEN TrieWalkExact(r, child, Tail(parts))
         ELSE UnknownService

\* The walk of find_service from node, over the labels left.
RECURSIVE TrieWalk(_, _, _)
TrieWalk(r, node, parts) ==
    IF parts = <<>> THEN UnknownService
    ELSE LET child == Append(node, Head(parts)) IN
         IF child \in DOMAIN r
         THEN IF r[child] # NoMark THEN r[child]
              ELSE TrieWalk(r, child, Tail(parts))
         ELSE UnknownService

\* DomainTrie.find_service(url) on the trie r.
FindService(r, url) ==
    TrieWalk(r, <<>>, Reverse(Split(ExtractDomain(url), ".")))

TrieInit ==
    /\ root = (<<>> :> NoMark)
    /\ trie_ret = [op |-> "init", arg |-> <<>>, result |-> NoneValue]

\* A domain name as text: its labels joined by ".".
DomainText(labels) == Join([i \in 1..Len(labels) |-> <<labels[i]>>], ".")

\* A url as text: scheme "://" ["www."] host [":" port] path.
UrlText(u) ==
    <<u.scheme, "://">>
    \o (IF u.www THEN <<"www", ".">> ELSE <<>>)
    \o DomainText(u.host)
    \o (IF u.port THEN <<":", "443">> ELSE <<>>)
    \o u.path

\* Domains registered in SpecTrie (of the table of _init_domain_trie) and the
\* services they are registered with.
TrieDomains == {<<"youtube", "com">>, <<"music", "youtube", "com">>,
                <<"vk", "com">>, <<"youtu", "be">>}

TrieServices == {"YouTube", "VK"}

\* Urls looked up in SpecTrie: the registered domains and subdomains of them,
\* with and without "www.", a port and a path.
TrieHosts == TrieDomains \cup {<<"m", "vk", "com">>, <<"example", "org">>,
                               <<"com">>}

TrieUrls == [scheme : {"https"}, www : BOOLEAN, host : TrieHosts,
             port : BOOLEAN, path : {<<>>, <<"/", "watch">>}]

\* DomainTrie.add_domain(domain, service)
TrieAdd(domain, service) ==
    /\ root' = AddDomain(root, DomainText(domain), service)
    /\ trie_ret' = [op |-> "add", arg |-> domain, result |-> NoneValue]

\* DomainTrie.find_service(url)
TrieFind(u) ==
    /\ trie_ret' = [op |-> "find", arg |-> u,
                    result |-> FindService(root, UrlText(u))]
    /\ UNCHANGED root

(***************************************************************************)
(* Patterns                                                                *)
(* A pattern is a regular expression of a small shape: a sequence of       *)
(* items, each a literal run of tokens that may be optional ("(?:www\.)?"),*)
(* closed by "$" or left open. group names the named group it defines      *)
(* ("" for none); ok is whether re.compile accepts the text.               *)
(***************************************************************************)
Lit(toks) == [lit |-> toks, opt |-> FALSE]
Opt(toks) == [lit |-> toks, opt |-> TRUE]

\* A pattern: the items it matches in turn, whether it ends in "$", the
\* name of its named group ("" if it has none), whether re.compile accepts
\* it, the number of its capturing groups, and the number of the group that
\* it refers back to with "\1" (0 if it does not).
Pattern(items, end, group, ok) ==
    [items |-> items, end |-> end, group |-> group, ok |-> ok,
     captures |-> IF group = "" THEN 0 ELSE 1, backref |-> 0]

\* A pattern with one unnamed capturing group, referred back to or not.
Capturing(items, end, backref) ==
    [items |-> items, end |-> end, group |-> "", ok |-> TRUE,
     captures |-> 1, backref |-> backref]

\* What is left of s after the items matched a prefix of it, in every way
\* the optional items allow.
RECURSIVE Remainders(_, _)
Remainders(items, s) ==
    IF items = <<>> THEN {s}
    ELSE LET it == Head(items) IN
         (IF StartsWith(s, it.lit)
          THEN Remainders(Tail(items), SubSeq(s, Len(it.lit) + 1, Len(s)))
          ELSE {})
         \cup (IF it.opt THEN Remainders(Tail(items), s) ELSE {})

\* compiled.match(s): the pattern matches at the start of s; only a pattern
\* that ends in "$" asks for the whole of s.
PatternMatches(pat, s) ==
    \E rest \in Remainders(pat.items, s) : pat.end => rest = <<>>

\* re.compile(pattern) succeeds.
Compiles(pat) == pat.ok

\* The number of capturing groups in front of alternative k of
\* '|'.join(f'(?:{p})' ...): the groups of the alternation are numbered
\* from the left through all the alternatives.
RECURSIVE GroupsBefore(_, _)
GroupsBefore(pats, k) ==
    IF k <= 1 THEN 0 ELSE GroupsBefore(pats, k - 1) + pats[k - 1].captures

\* Alternative k of the combined pattern matches at the start of s: "\1" of
\* the alternative is its own group only if no group stands in front of it;
\* otherwise it names a group of another alternative, which has matched
\* nothing, and a reference to such a group matches nothing.
AlternativeMatches(pats, k, s) ==
    /\ PatternMatches(pats[k], s)
    /\ pats[k].backref > 0 => GroupsBefore(pats, k) = 0

\* re.compile('|'.join(f'(?:{p})' ...)) succeeds: every part compiles and no
\* group name is defined twice.
CombinedCompiles(pats) ==
    /\ \A i \in 1..Len(pats) : Compiles(pats[i])
    /\ \A i, j \in 1..Len(pats) :
          (i # j /\ pats[i].group # "") => pats[i].group # pats[j].group

\* The patterns of the model.
YtWatch == Pattern(<<Lit(<<"https", "://">>), Opt(<<"www", ".">>),
                     Lit(<<"youtube", ".", "com", "/", "watch">>)>>, TRUE, "", TRUE)
YtBe    == Pattern(<<Lit(<<"https", "://", "youtu", ".", "be", "/">>)>>, FALSE, "", TRUE)
VkVideo == Pattern(<<Lit(<<"https", "://">>), Opt(<<"www", ".">>),
                     Lit(<<"vk", ".", "com", "/", "video">>)>>, TRUE, "", TRUE)
YtShorts == Pattern(<<Lit(<<"https", "://">>), Opt(<<"www", ".">>),
                      Lit(<<"youtube", ".", "com", "/", "shorts">>)>>, TRUE, "id", TRUE)
VkMirror == Pattern(<<Lit(<<"https", "://", "vk", ".", "me", "/", "video">>)>>,
                    TRUE, "id", TRUE)
Malformed == Pattern(<<Lit(<<"https", "://", "(">>)>>, FALSE, "", FALSE)

\* The services of URL_PATTERNS, in the dict's order.
ServiceOrder == <<"YouTube", "VK">>

PatternServices == {ServiceOrder[i] : i \in 1..Len(ServiceOrder)}

\* URL_PATTERNS as the class body defines it.
BuiltinPatterns ==
    [sv \in PatternServices |->
        IF sv = "YouTube" THEN <<YtWatch, YtBe>> ELSE <<VkVideo>>]

(***************************************************************************)
(* Pattern store                                                           *)
(* The configuration file is absent, garbage (not JSON), or a document: a  *)
(* sequence of [service, patterns] entries; in a document of the wrong     *)
(* shape an entry's value is a number (iterable is FALSE).                 *)
(***************************************************************************)
Entry(sv, pats) == [service |-> sv, patterns |-> pats, iterable |-> TRUE]
NumberEntry(sv) == [service |-> sv, patterns |-> <<>>, iterable |-> FALSE]

AbsentFile == [kind |-> "absent", doc |-> <<>>]
GarbageFile == [kind |-> "garbage", doc |-> <<>>]
DocFile(doc) == [kind |-> "doc", doc |-> doc]

\* json.dump(cls.URL_PATTERNS, ...): the document written for the patterns ps.
DocOf(ps) == DocFile([i \in 1..Len(ServiceOrder) |->
                         Entry(ServiceOrder[i], ps[ServiceOrder[i]])])

SeqSet(q) == {q[i] : i \in 1..Len(q)}

\* The inner loop of load_patterns_from_config: existing_patterns is the set
\* of the service's patterns before the loop; every pattern of the document
\* that is not in it is appended.
MergeServiceInFront(list, new) ==
    SelectSeq(new, LAMBDA x : x \notin SeqSet(list)) \o list

MergeService(list, new) ==
    list \o SelectSeq(new, LAMBDA x : x \notin SeqSet(list))

\* The outer loop of load_patterns_from_config from entry i on: services
\* that URL_PATTERNS does not know are skipped; an entry whose patterns are
\* not iterable raises TypeError, with the entries before it merged.
RECURSIVE MergeDoc(_, _, _)
MergeDoc(ps, doc, i) ==
    IF i > Len(doc) THEN [patterns |-> ps, raised |-> "none"]
    ELSE LET en == doc[i] IN
         IF en.service \notin DOMAIN ps THEN MergeDoc(ps, doc, i + 1)
         ELSE IF ~en.iterable THEN [patterns |-> ps, raised |-> "TypeError"]
         ELSE MergeDoc([ps EXCEPT ![en.service] = MergeService(@, en.patterns)],
                       doc, i + 1)

\* save_patterns_to_config: write is what the file system does with
\* open(..., 'w'): "ok" or "open_fails" (logged, the file keeps its contents).
SavePatterns(ps, file, write) ==
    IF write = "ok" THEN [file |-> DocOf(ps), result |-> TRUE]
    ELSE [file |-> file, result |-> FALSE]

\* load_patterns_from_config: read is what open and json.load do with an
\* existing file: "ok" or "read_fails".
LoadPatterns(ps, file, read, write) ==
    IF file.kind = "absent"
    THEN [patterns |-> ps, file |-> SavePatterns(ps, file, write).file,
          result |-> FALSE]
    ELSE IF file.kind = "garbage" \/ read = "read_fails"
    THEN [patterns |-> ps, file |-> file, result |-> FALSE]
    ELSE LET m == MergeDoc(ps, file.doc, 1) IN
         [patterns |-> m.patterns, file |-> file,
          result |-> m.raised = "none"]

\* register_url_pattern without the test that the pattern compiles.
RegisterPatternUnchecked(ps, file, service, pat, write) ==
    IF service \in DOMAIN ps /\ pat \notin SeqSet(ps[service])
    THEN [patterns |-> [ps EXCEPT ![service] = Append(@, pat)],
          file |-> SavePatterns([ps EXCEPT ![service] = Append(@, pat)],
                                file, write).file,
          result |-> TRUE, saved |-> TRUE]
    ELSE [patterns |-> ps, file |-> file, result |-> FALSE, saved |-> FALSE]

\* register_url_pattern(service, pattern); saved is whether
\* save_patterns_to_config was called.
RegisterPattern(ps, file, service, pat, write) ==
    IF service \in DOMAIN ps /\ pat \notin SeqSet(ps[service]) /\ Compiles(pat)
    THEN [patterns |-> [ps EXCEPT ![service] = Append(@, pat)],
          file |-> SavePatterns([ps EXCEPT ![service] = Append(@, pat)],
                                file, write).file,
          result |-> TRUE, saved |-> TRUE]
    ELSE [patterns |-> ps, file |-> file, result |-> FALSE, saved |-> FALSE]

\* What the last pattern store call was and what it returned; for
\* register_url_pattern also its arguments and whether it called save.
StoreRet(op, result) ==
    [op |-> op, result |-> result, service |-> "", pattern |-> <<>>,
     saved |-> FALSE]

StoreInit ==
    /\ URL_PATTERNS = BuiltinPatterns
    /\ cfg_file = AbsentFile
    /\ store_ret = StoreRet("init", FALSE)

ReadOutcomes == {"ok", "read_fails"}
WriteOutcomes == {"ok", "open_fails"}

\* VideoURL.load_patterns_from_config()
StoreLoad(read, write) ==
    LET r == LoadPatterns(URL_PATTERNS, cfg_file, read, write) IN
    /\ URL_PATTERNS' = r.patterns
    /\ cfg_file' = r.file
    /\ store_ret' = StoreRet("load", r.result)

\* VideoURL.save_patterns_to_config()
StoreSave(write) ==
    LET r == SavePatterns(URL_PATTERNS, cfg_file, write) IN
    /\ cfg_file' = r.file
    /\ store_ret' = StoreRet("save", r.result)
    /\ UNCHANGED URL_PATTERNS

\* VideoURL.register_url_pattern(service, pattern)
StoreRegister(service, pat, write) ==
    LET r == RegisterPattern(URL_PATTERNS, cfg_file, service, pat, write) IN
    /\ URL_PATTERNS' = r.patterns
    /\ cfg_file' = r.file
    /\ store_ret' = [op |-> "register", result |-> r.result, service |-> service,
                    pattern |-> pat, saved |-> r.saved]

\* The documents a user leaves in url_patterns.json (the file is edited by
\* hand): a new pattern next to a known one and an unknown service; the same
\* new pattern twice; a pattern that does not compile; a service whose
\* patterns are not a list, after one that merges.
EditedDocs ==
    {DocFile(<<Entry("YouTube", <<YtWatch, YtShorts>>),
               Entry("Vimeo", <<VkMirror>>)>>),
     DocFile(<<Entry("VK", <<VkMirror, VkMirror>>)>>),
     DocFile(<<Entry("VK", <<Malformed>>)>>),
     DocFile(<<Entry("YouTube", <<YtShorts>>), NumberEntry("VK")>>),
     GarbageFile}

\* The user replaces the configuration file.
StoreEdit(doc) ==
    /\ cfg_file' = doc
    /\ store_ret' = StoreRet("edit", FALSE)
    /\ UNCHANGED URL_PATTERNS

\* Arguments of register_url_pattern drawn in SpecStore.
RegisterServices == PatternServices \cup {"Vimeo"}
RegisterPatterns == {YtWatch, YtShorts, Malformed}

(***************************************************************************)
(* ServiceCache                                                            *)
(***************************************************************************)
\* VideoURL._service_cache = ServiceCache(max_size=1000, ttl=3600); the
\* instance under check holds fewer urls.
SvcMaxSize == 2
SvcTTL == 3600

\* _cleanup_old_entries: "to_remove = len(sorted_items) - self.max_size + 100"
SvcMargin == 100

DictKeys(d) == {d[i].url : i \in 1..Len(d)}

DictIndex(d, u) == CHOOSE i \in 1..Len(d) : d[i].url = u

\* del d[u]
DictDel(d, u) == SelectSeq(d, LAMBDA x : x.url # u)

\* d[u] = value: an existing key keeps its position.
DictPut(d, u, field, value) ==
    IF u \in DictKeys(d)
    THEN [d EXCEPT ![DictIndex(d, u)] = [url |-> u] @@ (field :> value)]
    ELSE Append(d, [url |-> u] @@ (field :> value))

\* The TTL test of get with "<=" for "<".
ScFreshInclusive(ts, t) == t - ts <= SvcTTL

\* get: "if current_time - self.timestamps[url] < self.ttl"
ScFresh(ts, t) == t - ts < SvcTTL

\* ServiceCache.get(url) at time t.
ScGet(c, ts, url, t) ==
    IF url \in DictKeys(c)
    THEN IF ScFresh(ts[DictIndex(ts, url)].ts, t)
         THEN [cache |-> c, timestamps |-> ts,
               result |-> c[DictIndex(c, url)].service]
         ELSE [cache |-> DictDel(c, url), timestamps |-> DictDel(ts, url),
               result |-> NoneValue]
    ELSE [cache |-> c, timestamps |-> ts, result |-> NoneValue]

\* sorted(items, key=lambda x: x[1]): stable, ascending by timestamp.
RECURSIVE SortedByTs(_)
SortedByTs(s) ==
    IF s = <<>> THEN <<>>
    ELSE LET m == CHOOSE i \in 1..Len(s) :
                    /\ \A j \in 1..Len(s) : s[i].ts <= s[j].ts
                    /\ \A j \in 1..(i - 1) : s[j].ts > s[i].ts
         IN  <<s[m]>> \o SortedByTs(SubSeq(s, 1, m - 1) \o SubSeq(s, m + 1, Len(s)))

\* sorted_items[:to_remove] as Python slices: a negative stop counts from
\* the end, a stop beyond the end takes everything.
SliceTo(s, n) ==
    IF n >= 0 THEN SubSeq(s, 1, IF n <= Len(s) THEN n ELSE Len(s))
    ELSE SubSeq(s, 1, IF Len(s) + n >= 0 THEN Len(s) + n ELSE 0)

\* ServiceCache._cleanup_old_entries at time t, for an instance with
\* self.max_size = max_size and the margin of the slice given.
CleanupWith(c, ts, t, max_size, margin) ==
    LET expired == {ts[i].url : i \in {j \in 1..Len(ts) : t - ts[j].ts >= SvcTTL}}
        c1  == SelectSeq(c, LAMBDA x : x.url \notin expired)
        ts1 == SelectSeq(ts, LAMBDA x : x.url \notin expired)
    IN  IF Len(c1) >= max_size
        THEN LET sorted_items == SortedByTs(ts1)
                 to_remove == Len(sorted_items) - max_size + margin
                 gone == {x.url : x \in {sorted_items[i] :
                              i \in 1..Len(SliceTo(sorted_items, to_remove))}}
             IN  [cache |-> SelectSeq(c1, LAMBDA x : x.url \notin gone),
                  timestamps |-> SelectSeq(ts1, LAMBDA x : x.url \notin gone)]
        ELSE [cache |-> c1, timestamps |-> ts1]

\* _cleanup_old_entries with no margin in "to_remove".
CleanupNoMargin(c, ts, t, max_size) == CleanupWith(c, ts, t, max_size, 0)

\* _cleanup_old_entries taking the entries to remove in the dictionary's
\* order.
CleanupInDictOrder(c, ts, t, max_size) ==
    LET expired == {ts[i].url : i \in {j \in 1..Len(ts) : t - ts[j].ts >= SvcTTL}}
        c1  == SelectSeq(c, LAMBDA x : x.url \notin expired)
        ts1 == SelectSeq(ts, LAMBDA x : x.url \notin expired)
    IN  IF Len(c1) >= max_size
        THEN LET to_remove == Len(ts1) - max_size + SvcMargin
                 gone == {x.url : x \in {ts1[i] :
                              i \in 1..Len(SliceTo(ts1, to_remove))}}
             IN  [cache |-> SelectSeq(c1, LAMBDA x : x.url \notin gone),
                  timestamps |-> SelectSeq(ts1, LAMBDA x : x.url \notin gone)]
        ELSE [cache |-> c1, timestamps |-> ts1]

\* ServiceCache._cleanup_old_entries at time t, self.max_size = max_size.
CleanupFor(c, ts, t, max_size) == CleanupWith(c, ts, t, max_size, SvcMargin)

\* _cleanup_old_entries of VideoURL._service_cache.
CleanupOldEntries(c, ts, t) == CleanupFor(c, ts, t, SvcMaxSize)

\* ServiceCache.set(url, service) at time t, self.max_size = max_size.
ScSetFor(c, ts, url, service, t, max_size) ==
    LET k == IF Len(c) >= max_size
             THEN CleanupFor(c, ts, t, max_size)
             ELSE [cache |-> c, timestamps |-> ts]
    IN  [cache |-> DictPut(k.cache, url, "service", service),
         timestamps |-> DictPut(k.timestamps, url, "ts", t)]

\* set of VideoURL._service_cache.
ScSet(c, ts, url, service, t) == ScSetFor(c, ts, url, service, t, SvcMaxSize)

ScInit ==
    /\ sc_cache = <<>>
    /\ sc_timestamps = <<>>
    /\ sc_ret = [op |-> "init", url |-> "", at |-> 0, found |-> FALSE,
                 result |-> NoneValue]
    /\ sc_lastset = <<>>

\* No thread is inside a call, and the ServiceCache is VideoURL._service_cache.
ThInit ==
    /\ ThIdle
    /\ sc_max = SvcMaxSize
    /\ sc_calls = 0

\* History: the time of the last set of url u, -1 if there was none.
LastSet(u) == IF u \in DictKeys(sc_lastset)
              THEN sc_lastset[DictIndex(sc_lastset, u)].ts ELSE -1

\* ServiceCache.get(url)
SvcGet(url) ==
    LET r == ScGet(sc_cache, sc_timestamps, url, now) IN
    /\ sc_cache' = r.cache
    /\ sc_timestamps' = r.timestamps
    /\ sc_ret' = [op |-> "get", url |-> url, at |-> now,
                  found |-> url \in DictKeys(sc_cache), result |-> r.result]
    /\ UNCHANGED <<now, sc_lastset>>

\* ServiceCache.set(url, service)
SvcSet(url, service) ==
    LET r == ScSet(sc_cache, sc_timestamps, url, service, now) IN
    /\ sc_cache' = r.cache
    /\ sc_timestamps' = r.timestamps
    /\ sc_lastset' = DictPut(sc_lastset, url, "ts", now)
    /\ sc_ret' = [op |-> "set", url |-> url, at |-> now,
                  found |-> url \in DictKeys(sc_cache), result |-> NoneValue]
    /\ UNCHANGED now

\* ServiceCache.clear()
SvcClear ==
    /\ sc_cache' = <<>>
    /\ sc_timestamps' = <<>>
    /\ sc_ret' = [op |-> "clear", url |-> "", at |-> now, found |-> FALSE,
                  result |-> NoneValue]
    /\ UNCHANGED <<now, sc_lastset>>

\* The instants at which the clock is read in SpecSvc: around one TTL after
\* 0 and after 1.
SvcTimes == {0, 1, 3600, 3601}

SvcUrls == {"u1", "u2", "u3"}

SvcServices == {"YouTube", "VK"}

\* The clock moves on to a later instant.
SvcTick ==
    /\ \E t \in SvcTimes : t > now /\ now' = t
    /\ UNCHANGED scVars

(***************************************************************************)
(* VideoURL: compiled matchers, classification and validation              *)
(* The class state is passed around as a record st with the fields         *)
(* patterns, file, combined, compiled, loaded, trie_init, root, cache,     *)
(* timestamps and log. A matcher is [kind, alts]: kind "combined" for one compiled *)
(* alternation, "list" for the list of separately compiled patterns.       *)
(***************************************************************************)
ClsState ==
    [patterns |-> URL_PATTERNS, file |-> cfg_file,
     combined |-> combined_patterns, compiled |-> compiled_patterns,
     loaded |-> patterns_loaded, trie_init |-> trie_initialized,
     root |-> root, cache |-> sc_cache, timestamps |-> sc_timestamps,
     log |-> unknown_log]

\* The body of the loop of _init_combined_patterns for one service, from
\* service number i of URL_PATTERNS on. The re.error of the combined
\* pattern is caught; the re.error of a pattern compiled on its own in the
\* except branch is not.
RECURSIVE CompileFrom(_, _)
CompileFrom(st, i) ==
    IF i > Len(ServiceOrder) THEN [st |-> st, raised |-> "none"]
    ELSE LET sv  == ServiceOrder[i]
             ps  == st.patterns[sv]
             st1 == [st EXCEPT !.combined = (sv :> ps) @@ @]
         IN  IF CombinedCompiles(ps)
             THEN CompileFrom([st1 EXCEPT !.compiled =
                      (sv :> [kind |-> "combined", alts |-> ps]) @@ @], i + 1)
             ELSE IF \A k \in 1..Len(ps) : Compiles(ps[k])
             THEN CompileFrom([st1 EXCEPT !.compiled =
                      (sv :> [kind |-> "list", alts |-> ps]) @@ @], i + 1)
             ELSE [st |-> st1, raised |-> "re.error"]

\* _init_combined_patterns without the test of cls._combined_patterns.
InitCombinedPatternsUnguarded(st) == CompileFrom(st, 1)

\* VideoURL._init_combined_patterns()
InitCombinedPatterns(st) ==
    IF DOMAIN st.combined = {} THEN CompileFrom(st, 1)
    ELSE [st |-> st, raised |-> "none"]

\* domain_map of _init_domain_trie, in the dict's order.
DomainMap ==
    <<[domain |-> <<"youtube", ".", "com">>, service |-> "YouTube"],
      [domain |-> <<"youtu", ".", "be">>, service |-> "YouTube"],
      [domain |-> <<"vk", ".", "com">>, service |-> "VK"],
      [domain |-> <<"vimeo", ".", "com">>, service |-> "Vimeo"]>>

RECURSIVE AddDomains(_, _, _)
AddDomains(r, map, i) ==
    IF i > Len(map) THEN r
    ELSE AddDomains(AddDomain(r, map[i].domain, map[i].service), map, i + 1)

\* VideoURL._init_domain_trie()
InitDomainTrie(st) ==
    IF ~st.trie_init
    THEN [st EXCEPT !.root = AddDomains(@, DomainMap, 1), !.trie_init = TRUE]
    ELSE st

\* load_patterns_from_config() on the class state.
LoadInto(st, read, write) ==
    LET r == LoadPatterns(st.patterns, st.file, read, write) IN
    [st EXCEPT !.patterns = r.patterns, !.file = r.file]

\* url matches at least one of the patterns that the matcher was compiled
\* from, each taken on its own.
MatchesOnePattern(m, url) ==
    \E k \in 1..Len(m.alts) : PatternMatches(m.alts[k], url)

\* matcher.match(url) for either kind of matcher: the combined pattern, or
\* the patterns of the list one by one.
MatcherMatches(m, url) ==
    IF m.kind = "combined"
    THEN \E k \in 1..Len(m.alts) : AlternativeMatches(m.alts, k, url)
    ELSE \E k \in 1..Len(m.alts) : PatternMatches(m.alts[k], url)

\* The matchers that classification reads, compiled anew from URL_PATTERNS
\* at every call.
LiveMatchers(st) ==
    LET good == {sv \in DOMAIN st.patterns :
                    \A k \in 1..Len(st.patterns[sv]) : Compiles(st.patterns[sv][k])}
    IN  [sv \in good |-> [kind |-> "list", alts |-> st.patterns[sv]]]

\* The matchers that classification reads: cls._compiled_patterns.
Matchers(st) == st.compiled

\* "for service_name, compiled_pattern in cls._compiled_patterns.items()":
\* the first service, in the dict's order, with a matcher that matches url;
\* "" if there is none.
FirstMatching(st, url) ==
    LET ms  == Matchers(st)
        hit == {i \in 1..Len(ServiceOrder) :
                   /\ ServiceOrder[i] \in DOMAIN ms
                   /\ MatcherMatches(ms[ServiceOrder[i]], url)}
    IN  IF hit = {} THEN ""
        ELSE ServiceOrder[CHOOSE i \in hit : \A j \in hit : i <= j]

\* get_service_name for a domain of the trie with the pattern test made a
\* condition of the answer.
TrieBranchStrict(st, url, trie_service) ==
    LET ms == Matchers(st)
        matched == /\ trie_service \in DOMAIN ms
                   /\ MatcherMatches(ms[trie_service], url)
    IN  [service |-> IF matched THEN trie_service ELSE UnknownService,
         logged |-> IF matched THEN <<>> ELSE <<[service |-> trie_service, url |-> url]>>]

\* get_service_name for a domain of the trie with the diagnostic written only
\* for a service that has a matcher.
TrieBranchQuiet(st, url, trie_service) ==
    LET ms == Matchers(st)
        known == trie_service \in DOMAIN ms
        matched == known /\ MatcherMatches(ms[trie_service], url)
    IN  [service |-> trie_service,
         logged |-> IF matched \/ ~known THEN <<>>
                    ELSE <<[service |-> trie_service, url |-> url]>>]

\* get_service_name for a domain that the trie maps to trie_service: the
\* service's matcher is tried; without a match the url is logged as an
\* unknown format and the trie's service is the answer all the same.
TrieBranch(st, url, trie_service) ==
    LET ms == Matchers(st)
        matched == /\ trie_service \in DOMAIN ms
                   /\ MatcherMatches(ms[trie_service], url)
    IN  [service |-> trie_service,
         logged |-> IF matched THEN <<>> ELSE <<[service |-> trie_service, url |-> url]>>]

\* log_unknown_url_format(service, url) for each of the lines: a line, less
\* its time stamp, is added to the service's log file.
LogUnknownUrlFormat(log, lines) == log \cup {lines[i] : i \in 1..Len(lines)}

\* The classification of get_service_name by the domain alone, without the
\* loop over the matchers for a domain that the trie does not hold.
ClassifyByDomain(st, url) ==
    LET trie_service == FindService(st.root, url) IN
    IF trie_service # UnknownService
    THEN TrieBranch(st, url, trie_service)
    ELSE [service |-> UnknownService, logged |-> <<>>]

\* The classification of get_service_name after the cache miss and the
\* initialisation.
Classify(st, url) ==
    LET trie_service == FindService(st.root, url) IN
    IF trie_service # UnknownService
    THEN TrieBranch(st, url, trie_service)
    ELSE LET sv == FirstMatching(st, url) IN
         [service |-> IF sv = "" THEN UnknownService ELSE sv, logged |-> <<>>]

\* Result of get_service_name: the class state it leaves, the service it
\* returns (NoneValue if it raised), the lines it logged, and whether the
\* cache answered.
GsnResult(st, service, raised, logged, hit) ==
    [st |-> st, service |-> service, raised |-> raised, logged |-> logged,
     hit |-> hit]

\* get_service_name: "cls._service_cache.set(url, service)", k the cache
\* after it, and "return service".
GsnReturn(st, c, k) ==
    GsnResult([st EXCEPT !.cache = k.cache, !.timestamps = k.timestamps,
                         !.log = LogUnknownUrlFormat(@, c.logged)],
              c.service, "none", c.logged, FALSE)

\* get_service_name caching the services it recognised only.
GsnStoreKnown(st, c, url, t) ==
    GsnReturn(st, c, IF c.service = UnknownService
                     THEN [cache |-> st.cache, timestamps |-> st.timestamps]
                     ELSE ScSet(st.cache, st.timestamps, url, c.service, t))

\* get_service_name after the initialisation, c the classification.
GsnStore(st, c, url, t) ==
    GsnReturn(st, c, ScSet(st.cache, st.timestamps, url, c.service, t))

\* get_service_name after "if not cls._patterns_loaded: ...", ini the
\* outcome of that block: its exception leaves the method.
GsnClassify(ini, url, t) ==
    IF ini.raised # "none"
    THEN GsnResult(ini.st, NoneValue, ini.raised, <<>>, FALSE)
    ELSE GsnStore(ini.st, Classify(ini.st, url), url, t)

\* The end of "if not cls._patterns_loaded:" in get_service_name, c the
\* outcome of _init_combined_patterns: _init_domain_trie() and
\* "_patterns_loaded = True".
GsnInitTrie(c) ==
    IF c.raised # "none" THEN c
    ELSE [st |-> [InitDomainTrie(c.st) EXCEPT !.loaded = TRUE], raised |-> "none"]

\* get_service_name initialising on every call: the patterns are loaded and
\* compiled again whatever the flag says.
GsnInitAlways(st, read, write) ==
    GsnInitTrie(InitCombinedPatternsUnguarded(LoadInto(st, read, write)))

\* "if not cls._patterns_loaded:" of get_service_name.
GsnInit(st, read, write) ==
    IF ~st.loaded
    THEN GsnInitTrie(InitCombinedPatterns(LoadInto(st, read, write)))
    ELSE [st |-> st, raised |-> "none"]

\* get_service_name classifying the url also when the cache answers, for the
\* diagnostic.
GsnLookupLogging(st, g, url, t, read, write) ==
    IF g.result # NoneValue
    THEN LET c == Classify(st, url) IN
         GsnResult([st EXCEPT !.cache = g.cache, !.timestamps = g.timestamps,
                              !.log = LogUnknownUrlFormat(@, c.logged)],
                   g.result, "none", c.logged, TRUE)
    ELSE GsnClassify(GsnInit([st EXCEPT !.cache = g.cache,
                                        !.timestamps = g.timestamps],
                             read, write), url, t)

\* get_service_name from the cache lookup on, g its outcome.
GsnLookup(st, g, url, t, read, write) ==
    IF g.result # NoneValue
    THEN GsnResult([st EXCEPT !.cache = g.cache, !.timestamps = g.timestamps],
                   g.result, "none", <<>>, TRUE)
    ELSE GsnClassify(GsnInit([st EXCEPT !.cache = g.cache,
                                        !.timestamps = g.timestamps],
                             read, write), url, t)

\* VideoURL.get_service_name(url) at time t; read and write are what the
\* file system does if the configuration is loaded in this call.
\* The profiling decorator around get_service_name and is_valid returns what
\* the method returns and raises again what it raises; it is left out.
GetServiceName(st, url, t, read, write) ==
    IF url = <<>>
    THEN GsnResult(st, UnknownService, "none", <<>>, FALSE)
    ELSE GsnLookup(st, ScGet(st.cache, st.timestamps, url, t), url, t,
                   read, write)

\* The messages of is_valid (in English), with the service or exception
\* they name.
NoMessage == [kind |-> "", service |-> ""]
EmptyInput == [kind |-> "URL must not be empty", service |-> ""]
MissingScheme ==
    [kind |-> "URL must start with http:// or https://", service |-> ""]
FormatMismatch(sv) == [kind |-> "Wrong URL format for", service |-> sv]
UnsupportedService ==
    [kind |-> "Unsupported video service or wrong URL format", service |-> ""]
CheckError(exc) == [kind |-> "Error while checking URL", service |-> exc]

\* url.startswith(('http://', 'https://'))
StartsHttp(url) ==
    StartsWith(url, <<"http", "://">>) \/ StartsWith(url, <<"https", "://">>)

\* What is_valid answers when exc is raised in its try block:
\* URLValidationError becomes (False, its message), any other exception
\* (False, "error while checking URL: " + its text).
IsValidExcept(st, exc, msg, service, logged, hit) ==
    [st |-> st, valid |-> FALSE,
     msg |-> IF exc = "URLValidationError" THEN msg ELSE CheckError(exc),
     raised |-> "none", service |-> service, logged |-> logged, hit |-> hit]

\* The url that is_valid goes on with: "https://" is put before a url that
\* has no "://".
Corrected(url) ==
    IF url # <<>> /\ ~StartsHttp(url) /\ ~Contains(url, "://")
    THEN <<"https", "://">> \o url ELSE url

\* is_valid after its call of get_service_name, g the outcome of the call.
IsValidNamed(g) ==
    IF g.raised # "none"
    THEN IsValidExcept(g.st, g.raised, NoMessage, NoneValue, <<>>, FALSE)
    ELSE IF g.service # UnknownService
    THEN IsValidExcept(g.st, "URLValidationError", FormatMismatch(g.service),
                       g.service, g.logged, g.hit)
    ELSE [st |-> g.st, valid |-> FALSE, msg |-> UnsupportedService,
          raised |-> "none", service |-> g.service, logged |-> g.logged,
          hit |-> g.hit]

\* is_valid after "if not cls._patterns_loaded: ...", ini the outcome of
\* that block: the loop over the compiled matchers, then get_service_name.
IsValidMatch(ini, url, t, read, write) ==
    IF ini.raised # "none"
    THEN IsValidExcept(ini.st, ini.raised, NoMessage, NoneValue, <<>>, FALSE)
    ELSE IF FirstMatching(ini.st, url) # ""
    THEN [st |-> ini.st, valid |-> TRUE, msg |-> NoMessage, raised |-> "none",
          service |-> NoneValue, logged |-> <<>>, hit |-> FALSE]
    ELSE IsValidNamed(GetServiceName(ini.st, url, t, read, write))

\* The end of "if not cls._patterns_loaded:" in is_valid, c the outcome of
\* _init_combined_patterns: "_patterns_loaded = True".
IsValidLoaded(c) ==
    IF c.raised # "none" THEN c
    ELSE [st |-> [c.st EXCEPT !.loaded = TRUE], raised |-> "none"]

\* "if not cls._patterns_loaded:" of is_valid.
IsValidInit(st, read, write) ==
    IF ~st.loaded
    THEN IsValidLoaded(InitCombinedPatterns(LoadInto(st, read, write)))
    ELSE [st |-> st, raised |-> "none"]

\* is_valid without the automatic correction: every url that does not start
\* with "http://" or "https://" is refused.
RECURSIVE IsValidNoRetry(_, _, _, _, _, _)
IsValidNoRetry(st, url, t, read, write, depth) ==
    IF url = <<>>
    THEN [depth |-> depth] @@
         IsValidExcept(st, "URLValidationError", EmptyInput, NoneValue, <<>>, FALSE)
    ELSE IF ~StartsHttp(url)
    THEN [depth |-> depth] @@
         IsValidExcept(st, "URLValidationError", MissingScheme, NoneValue,
                       <<>>, FALSE)
    ELSE [depth |-> depth] @@
         IsValidMatch(IsValidInit(st, read, write), url, t, read, write)

\* VideoURL.is_valid(url) at time t, entered at recursion depth depth: a url
\* without "http://" or "https://" in front and without "://" is given
\* "https://" and is_valid is called on the result ("return
\* cls.is_valid(fixed_url)"). The result carries the depth of the call that
\* produced it.
RECURSIVE IsValidAt(_, _, _, _, _, _)
IsValidAt(st, url, t, read, write, depth) ==
    IF url = <<>>
    THEN [depth |-> depth] @@
         IsValidExcept(st, "URLValidationError", EmptyInput, NoneValue, <<>>, FALSE)
    ELSE IF ~StartsHttp(url)
    THEN IF ~Contains(url, "://")
         THEN IsValidAt(st, <<"https", "://">> \o url, t, read, write, depth + 1)
         ELSE [depth |-> depth] @@
              IsValidExcept(st, "URLValidationError", MissingScheme, NoneValue,
                            <<>>, FALSE)
    ELSE [depth |-> depth] @@
         IsValidMatch(IsValidInit(st, read, write), url, t, read, write)

\* VideoURL.is_valid(url) called from outside.
IsValid(st, url, t, read, write) == IsValidAt(st, url, t, read, write, 0)

ClsInit ==
    /\ combined_patterns = <<>>
    /\ compiled_patterns = <<>>
    /\ patterns_loaded = FALSE
    /\ trie_initialized = FALSE
    /\ unknown_log = {}
    /\ cls_pc = "class"
    /\ cls_ret = [op |-> "init", url |-> <<>>, valid |-> FALSE, msg |-> NoMessage,
                  service |-> NoneValue, raised |-> "none", logged |-> <<>>,
                  hit |-> FALSE, compared |-> FALSE, depth |-> 0]
    /\ cls_first = [url |-> <<>>, service |-> NoneValue]

\* The class state after a call.
ClsAssign(st) ==
    /\ URL_PATTERNS' = st.patterns
    /\ cfg_file' = st.file
    /\ combined_patterns' = st.combined
    /\ compiled_patterns' = st.compiled
    /\ patterns_loaded' = st.loaded
    /\ trie_initialized' = st.trie_init
    /\ root' = st.root
    /\ sc_cache' = st.cache
    /\ sc_timestamps' = st.timestamps
    /\ unknown_log' = st.log

\* In SpecCls the file system works: every read and write of the
\* configuration file is "ok" (SpecStore draws the failures).

\* The statements at the end of the module, run when it is imported:
\* load_patterns_from_config(), _init_combined_patterns(),
\* _init_domain_trie(), _patterns_loaded = True. An exception ends the import.
ClsImport ==
    /\ cls_pc = "class"
    /\ \E c \in {InitCombinedPatterns(LoadInto(ClsState, "ok", "ok"))} :
       IF c.raised # "none"
       THEN /\ ClsAssign(c.st)
            /\ cls_pc' = "import_failed"
            /\ cls_ret' = [cls_ret EXCEPT !.op = "import", !.raised = c.raised]
       ELSE /\ ClsAssign([InitDomainTrie(c.st) EXCEPT !.loaded = TRUE])
            /\ cls_pc' = "imported"
            /\ cls_ret' = [cls_ret EXCEPT !.op = "import"]
    /\ UNCHANGED <<now, cls_first, store_ret>>

\* A caller may use the class where the import succeeded, or where the
\* statements at the end of the module have not run (the methods then
\* initialise on their first call).
Callable == cls_pc \in {"class", "lazy", "imported"}

AfterCall == IF cls_pc = "class" THEN "lazy" ELSE cls_pc

\* History: a get_service_name call that returned service for url may be
\* picked for comparison if none is yet.
Pick(url, service, pick) ==
    IF service # NoneValue /\ cls_first.service = NoneValue /\ pick
    THEN [url |-> url, service |-> service]
    ELSE cls_first

\* A call that returned service for url is compared with the picked call.
Compared(url, service) ==
    service # NoneValue /\ cls_first.service # NoneValue /\ cls_first.url = url

\* VideoURL.get_service_name(url)
ClsGetServiceName(url, pick) ==
    /\ Callable
    /\ pick => cls_first.service = NoneValue
    /\ \E r \in {GetServiceName(ClsState, url, now, "ok", "ok")} :
       /\ ClsAssign(r.st)
       /\ cls_ret' = [op |-> "get_service_name", url |-> url, valid |-> FALSE,
                      msg |-> NoMessage, service |-> r.service,
                      raised |-> r.raised, logged |-> r.logged, hit |-> r.hit,
                      compared |-> Compared(url, r.service), depth |-> 0]
       /\ cls_first' = Pick(url, r.service, pick)
    /\ cls_pc' = AfterCall
    /\ UNCHANGED <<now, store_ret>>

\* VideoURL.is_valid(url)
ClsIsValid(url, pick) ==
    /\ Callable
    /\ pick => cls_first.service = NoneValue
    /\ \E r \in {IsValid(ClsState, url, now, "ok", "ok")} :
       /\ ClsAssign(r.st)
       /\ cls_ret' = [op |-> "is_valid", url |-> url, valid |-> r.valid,
                      msg |-> r.msg, service |-> r.service,
                      raised |-> r.raised, logged |-> r.logged, hit |-> r.hit,
                      compared |-> Compared(Corrected(url), r.service),
                      depth |-> r.depth]
       /\ cls_first' = Pick(Corrected(url), r.service, pick)
    /\ cls_pc' = AfterCall
    /\ UNCHANGED <<now, store_ret>>

\* VideoURL._init_combined_patterns() called on its own.
ClsInitCombinedPatterns ==
    /\ Callable
    /\ \E c \in {InitCombinedPatterns(ClsState)} :
       /\ ClsAssign(c.st)
       /\ cls_ret' = [op |-> "_init_combined_patterns", url |-> <<>>,
                      valid |-> FALSE, msg |-> NoMessage, service |-> NoneValue,
                      raised |-> c.raised, logged |-> <<>>, hit |-> FALSE,
                      compared |-> FALSE, depth |-> 0]
    /\ cls_pc' = AfterCall
    /\ UNCHANGED <<now, store_ret, cls_first>>

\* VideoURL.register_url_pattern(service, pattern)
ClsRegister(service, pat) ==
    /\ Callable
    /\ StoreRegister(service, pat, "ok")
    /\ cls_pc' = AfterCall
    /\ cls_ret' = [cls_ret EXCEPT !.op = "register"]
    /\ UNCHANGED <<now, root, sc_cache, sc_timestamps, combined_patterns,
                   compiled_patterns, patterns_loaded, trie_initialized,
                   unknown_log, cls_first>>

\* The instants at which the clock is read in SpecCls.
ClsTimes == {0, 3600}

\* The clock moves on to a later instant.
ClsTick ==
    /\ \E t \in ClsTimes : t > now /\ now' = t
    /\ UNCHANGED <<root, sc_cache, sc_timestamps, storeVars, clsVars>>

\* The configuration files found when the module is loaded: none; one with
\* a pattern for VK written twice; one with a malformed pattern for YouTube;
\* one with a malformed pattern for VK.
StartFiles ==
    {AbsentFile,
     DocFile(<<Entry("VK", <<VkMirror, VkMirror>>)>>),
     DocFile(<<Entry("YouTube", <<Malformed>>)>>),
     DocFile(<<Entry("VK", <<Malformed>>)>>)}

\* The urls that are classified in SpecCls: the empty string, a YouTube
\* url of a known format, a YouTube url of an unknown format, and a url of a
\* domain that the trie does not hold and only VkMirror matches.
GsnUrls ==
    {<<>>,
     <<"https", "://", "youtube", ".", "com", "/", "watch">>,
     <<"https", "://", "www", ".", "youtube", ".", "com", "/", "other">>,
     <<"https", "://", "vk", ".", "me", "/", "video">>}

\* The urls that are validated in SpecCls: those and two without
\* "http://" or "https://" in front, one with another scheme and one with
\* none.
ValidUrls ==
    GsnUrls \cup
    {<<"ftp", "://", "youtube", ".", "com", "/", "watch">>,
     <<"www", ".", "youtube", ".", "com", "/", "other">>}

InitMeta ==
    /\ now = 0
    /\ VicInit
    /\ ScInit
    /\ TrieInit
    /\ StoreInit
    /\ ClsInit
    /\ ThInit

NextMeta ==
    /\ \/ \E u \in MetaUrls, i \in Infos, io \in IoOutcomes : VicSet(u, i, io)
       \/ \E u \in MetaUrls, exceeded \in BOOLEAN : VicGet(u, exceeded)
       \/ VicClear
       \/ MetaTick
    /\ UNCHANGED <<scVars, trieVars, storeVars, clsVars, thVars>>

SpecMeta == InitMeta /\ [][NextMeta]_vars

(***************************************************************************)
(* Claims on VideoInfoCache, checked under SpecMeta                        *)
(***************************************************************************)
\* C1: after any sequence of set, get and clear calls the number of cached
\* entries is at most max_size.
C1_CountBound == Len(vic_cache) <= MetaMaxSize

\* C1 witness: a set that found the cache full, evicted, and left it full.
C1_Witness ==
    /\ vic_ret.op = "set"
    /\ vic_ret.evicted # <<>>
    /\ Len(vic_cache) = MetaMaxSize

\* C2: after any sequence of set calls the estimated total byte size
\* (cache_size_bytes) is at most max_memory_bytes.
C2_ByteBound == cache_size_bytes <= MetaMaxBytes

\* C3: every entry evicted (by set or by the memory-pressure sweep of get) is
\* the one whose last use (insertion, overwrite or hit) is the oldest among
\* the entries present at that moment.
C3_EvictsLeastRecentlyUsed == vic_ret.evicted = vic_ret.lru

\* The sum of the estimated sizes of the entries of the cache c.
RECURSIVE SumOfSizes(_)
SumOfSizes(c) ==
    IF c = <<>> THEN 0 ELSE EstimateSize(Head(c).info) + SumOfSizes(Tail(c))

\* C33: in every state reached by set (of a new key or over an existing
\* one), get with its memory-pressure sweep and clear, cache_size_bytes is
\* the sum of the estimated sizes of the entries in the cache.
C33_ByteAccountingExact == cache_size_bytes = SumOfSizes(vic_cache)

\* The step is a call of get.
GetCalled == vic_ret'.op = "get" /\ now' = now

\* The sweep of get is due: more than the interval has passed since the
\* last check.
SweepDue == now - last_cleanup > CleanupInterval

\* C30: get removes entries only when more than 300 s have passed since the
\* last check and the memory probe reports the limit exceeded; it then
\* removes floor(n/2) of the n entries, least recently used first, before
\* the lookup; otherwise it removes nothing. The time of the last check
\* becomes the time of the call whenever the interval has passed.
C30_MemoryPressureSweep ==
    [][GetCalled =>
         LET n == Len(vic_cache)
             sweep == SweepDue /\ vic_ret'.exceeded
         IN  /\ last_cleanup' = IF SweepDue THEN now ELSE last_cleanup
             /\ Len(vic_ret'.evicted) = IF sweep THEN n \div 2 ELSE 0
             /\ vic_ret'.evicted = vic_ret'.lru
             /\ VicKeys(vic_cache') =
                   VicKeys(vic_cache) \ {vic_ret'.evicted[i] :
                                            i \in 1..Len(vic_ret'.evicted)}]_vars

\* VideoInfoCache with its file: set, get, clear, save_to_file and
\* load_from_file. load_from_file leaves cache_size_bytes as it is, so the
\* counter can drift without limit; loads are taken while it is within twice
\* the byte limit.
InitDisk ==
    /\ now = 0
    /\ VicInit
    /\ ScInit
    /\ TrieInit
    /\ StoreInit
    /\ ClsInit
    /\ ThInit

NextDisk ==
    /\ \/ \E u \in DiskUrls, i \in DiskInfos, io \in IoOutcomes : VicSet(u, i, io)
       \/ \E u \in DiskUrls : VicGet(u, FALSE)
       \/ VicClear
       \/ VicSave
       \/ /\ cache_size_bytes \in -(2 * MetaMaxBytes)..(2 * MetaMaxBytes)
          /\ \E fresh \in BOOLEAN : VicLoad(fresh)
    /\ UNCHANGED <<scVars, trieVars, storeVars, clsVars, thVars>>

SpecDisk == InitDisk /\ [][NextDisk]_vars

\* C16: save_to_file followed at once by load_from_file, into the same cache
\* or into a fresh one, yields the same keys with the same values in the same
\* order as the cache that was saved.
C16_SaveLoadRoundTrip ==
    [][(vic_ret.op = "save" /\ vic_ret'.op = "load")
          => vic_cache' = vic_cache]_vars

\* C19: a step that is a get(url) (the clock stands still in it) for a url
\* that has no entry returns None without raising,
\* and (when the sweep of that call evicted nothing) leaves the entries and
\* their order as they were.
C19_MissReturnsNone ==
    [][(/\ now' = now
        /\ vic_ret'.op = "get"
        /\ GetKey(vic_ret'.url) \notin VicKeys(vic_cache'))
          => /\ vic_ret'.raised = "none"
             /\ vic_ret'.result = NoneValue
             /\ vic_ret'.evicted = <<>> => vic_cache' = vic_cache]_vars

(***************************************************************************)
(* A new run of the program with a cache file left by another: SpecReload  *)
(* The module constructs the cache and loads the file (downloader.py 291,  *)
(* 1658); get and set are called after that.                               *)
(***************************************************************************)
\* The documents found in video_cache.json: from no entry to one more than
\* max_size entries, written by a run with a larger max_size or by set
\* calls of several worker threads at once.
ReloadDocs ==
    {VicDoc([i \in 1..n |-> [key |-> GetKey(ToString(i)), info |-> "a"]]) :
        n \in 0..(MetaMaxSize + 1)}

\* The module has been imported: load_from_file was called.
Reloaded == vic_ret.op # "init"

InitReload ==
    /\ now = 0
    /\ vic_cache = <<>>
    /\ cache_size_bytes = 0
    /\ last_cleanup = 0
    /\ vic_file \in ReloadDocs \cup {VicAbsent, VicPartial}
    /\ vic_ret = [op |-> "init", url |-> "", result |-> "None",
                  raised |-> "none", evicted |-> <<>>, lru |-> <<>>,
                  exceeded |-> FALSE]
    /\ vic_uses = <<>>
    /\ ScInit
    /\ TrieInit
    /\ StoreInit
    /\ ClsInit
    /\ ThInit

NextReload ==
    /\ \/ ~Reloaded /\ VicLoad(TRUE)
       \/ Reloaded /\ \E u \in DiskUrls, i \in {"a", "bb"} : VicSet(u, i, "ok")
       \/ Reloaded /\ \E u \in DiskUrls \cup {"1"}, exceeded \in BOOLEAN :
                         VicGet(u, exceeded)
       \/ Reloaded /\ MetaTick
    /\ UNCHANGED <<scVars, trieVars, storeVars, clsVars, thVars>>

SpecReload == InitReload /\ [][NextReload]_vars

\* C34: after load_from_file, as done when the module is imported, with any
\* document in the file, and any get and set calls after it, the cache
\* holds at most max_size entries.
C34_BoundSurvivesReload ==
    Reloaded => Len(vic_cache) <= MetaMaxSize

InitSvc ==
    /\ now = 0
    /\ VicInit
    /\ ScInit
    /\ TrieInit
    /\ StoreInit
    /\ ClsInit
    /\ ThInit

NextSvc ==
    /\ \/ \E u \in SvcUrls : SvcGet(u)
       \/ \E u \in SvcUrls, sv \in SvcServices : SvcSet(u, sv)
       \/ SvcClear
       \/ SvcTick
    /\ UNCHANGED <<vicVars, trieVars, storeVars, clsVars, thVars>>

SpecSvc == InitSvc /\ [][NextSvc]_vars

(***************************************************************************)
(* Claims on ServiceCache, checked under SpecSvc                           *)
(***************************************************************************)
\* C4: if the last set(url, s) happened at time T, a get(url) at a time
\* >= T + ttl returns a miss, whatever get/set calls happened in between.
C4_NoHitAfterTtl ==
    (/\ sc_ret.op = "get"
     /\ LastSet(sc_ret.url) >= 0
     /\ sc_ret.at >= LastSet(sc_ret.url) + SvcTTL)
    => sc_ret.result = NoneValue

\* C4 witness: a get at exactly T + ttl that found the stale entry still in
\* the cache and returned a miss.
C4_Witness ==
    /\ sc_ret.op = "get"
    /\ sc_ret.found
    /\ LastSet(sc_ret.url) >= 0
    /\ sc_ret.at = LastSet(sc_ret.url) + SvcTTL
    /\ sc_ret.result = NoneValue

\* C32: an entry that a lookup hit at time A is returned as a hit by the
\* next lookup of the same url at a time < A + ttl (the access resets the
\* entry's timestamp).
C32_RefreshOnAccess ==
    [][(/\ sc_ret.op = "get"
        /\ sc_ret.result # NoneValue
        /\ sc_ret'.op = "get"
        /\ sc_ret'.url = sc_ret.url
        /\ now' = now
        /\ sc_ret'.at < sc_ret.at + SvcTTL)
          => sc_ret'.result # NoneValue]_vars

(***************************************************************************)
(* ServiceCache instances of several sizes: SpecSizes                      *)
(* max_size is a constructor argument; the sweep of set removes            *)
(* len - max_size + 100 entries, so the sizes below lie on both sides of   *)
(* that margin. Urls are the decimal names of small numbers.               *)
(***************************************************************************)
SzSizes == {1, SvcMaxSize, SvcMargin, SvcMargin + 1, SvcMargin + 2}

\* The calls made on one instance: enough to fill it and to sweep it.
SzExtraCalls == 3

SzCall ==
    /\ sc_calls < sc_max + SzExtraCalls
    /\ sc_calls' = sc_calls + 1

\* A url that is not cached: the name of the least number not in use.
SzNewUrl ==
    ToString(CHOOSE n \in 1..(Len(sc_cache) + 1) :
               /\ ToString(n) \notin DictKeys(sc_cache)
               /\ \A m \in 1..(n - 1) : ToString(m) \in DictKeys(sc_cache))

\* The urls the calls of SpecSizes are made with: a new one and the first
\* key of the dictionary.
SzUrls ==
    {SzNewUrl} \cup (IF sc_cache = <<>> THEN {} ELSE {sc_cache[1].url})

\* ServiceCache.get(url) of an instance of size sc_max.
SzGet(url) ==
    /\ SzCall
    /\ \E r \in {ScGet(sc_cache, sc_timestamps, url, now)} :
          /\ sc_cache' = r.cache
          /\ sc_timestamps' = r.timestamps
          /\ sc_ret' = [op |-> "get", url |-> url, at |-> now,
                        found |-> url \in DictKeys(sc_cache), result |-> r.result]
    /\ UNCHANGED <<now, sc_lastset>>

\* ServiceCache.set(url, service) of an instance of size sc_max.
SzSet(url, service) ==
    /\ SzCall
    /\ \E r \in {ScSetFor(sc_cache, sc_timestamps, url, service, now, sc_max)} :
          /\ sc_cache' = r.cache
          /\ sc_timestamps' = r.timestamps
          /\ sc_ret' = [op |-> "set", url |-> url, at |-> now,
                        found |-> url \in DictKeys(sc_cache), result |-> NoneValue]
    /\ UNCHANGED <<now, sc_lastset>>

SzTimes == {0, 1, SvcTTL}

\* A second or one TTL passes once the cache is full or one short of it.
SzTick ==
    /\ Len(sc_cache) >= sc_max - 1
    /\ UNCHANGED sc_calls
    /\ \E t \in SzTimes : t > now /\ now' = t
    /\ UNCHANGED scVars

InitSizes ==
    /\ now = 0
    /\ VicInit
    /\ ScInit
    /\ TrieInit
    /\ StoreInit
    /\ ClsInit
    /\ ThIdle
    /\ sc_max \in SzSizes
    /\ sc_calls = 0

NextSizes ==
    /\ \/ \E u \in SzUrls : SzGet(u)
       \/ \E u \in SzUrls : SzSet(u, "YouTube")
       \/ SzTick
    /\ UNCHANGED <<vicVars, trieVars, storeVars, clsVars, vic_lock, vic_threads,
                   sc_threads, cls_threads, cls_counts, sc_max, dmVars>>

SpecSizes == InitSizes /\ [][NextSizes]_vars

\* C21: whatever max_size >= 1 the cache was built with, after every set and
\* every get the number of cached urls is at most max_size.
C21_SizeBound ==
    /\ Len(sc_cache) <= sc_max
    /\ Len(sc_timestamps) = Len(sc_cache)

\* C21 witness: a set on a full cache of a size above the margin, whose sweep
\* removed exactly the margin and kept the rest.
C21_Witness ==
    /\ sc_max > SvcMargin
    /\ sc_ret.op = "set"
    /\ ~sc_ret.found
    /\ Len(sc_cache) = sc_max - SvcMargin + 1

\* The time at which url was stored, in the timestamps ts.
StoredAt(ts, url) == ts[DictIndex(ts, url)].ts

\* The entry of url, stored at time at, has expired at time t for the sweep.
SweepExpired(at, t) == t - at >= SvcTTL

\* C31: ServiceCache.set removes entries only when the cache is at
\* capacity; it then removes every entry whose TTL has expired, and
\* unexpired entries only if the cache is still at capacity after that, the
\* oldest by timestamp first (max_size - 100 entries are left before the
\* insert when max_size >= 100); an unexpired entry is never removed while
\* an older unexpired entry is kept. The url being set is stored in any
\* case and is left out of the removed and the kept ones.
C31_EvictionOrder ==
    [][(sc_ret'.op = "set" /\ now' = now) =>
         LET url == sc_ret'.url
             others == DictKeys(sc_cache) \ {url}
             removed == others \ DictKeys(sc_cache')
             kept == others \cap DictKeys(sc_cache')
             expired == {u \in DictKeys(sc_cache) :
                            SweepExpired(StoredAt(sc_timestamps, u), now)}
             full == Len(sc_cache) >= sc_max
             still == Len(sc_cache) - Cardinality(expired) >= sc_max
         IN  /\ url \in DictKeys(sc_cache')
             /\ ~full => removed = {}
             /\ full => expired \ {url} \subseteq removed
             /\ (full /\ ~still) => removed = expired \ {url}
             /\ (full /\ still) =>
                   /\ \A r \in removed, k \in kept :
                          StoredAt(sc_timestamps, r) <= StoredAt(sc_timestamps, k)
                   /\ sc_max >= SvcMargin =>
                          Len(sc_cache') \in {sc_max - SvcMargin,
                                             sc_max - SvcMargin + 1}
                   /\ (sc_max >= SvcMargin /\ url \notin DictKeys(sc_cache)) =>
                          Len(sc_cache') = sc_max - SvcMargin + 1]_vars

\* A set on a full cache with no expired entry removed the oldest hundred
\* and kept the first key of the dictionary, which had been stored again
\* later than they.
C31_Witness ==
    /\ sc_max = SvcMargin + 2
    /\ sc_ret.op = "set"
    /\ ~sc_ret.found
    /\ Len(sc_cache) = 3
    /\ sc_cache[1].url = "1"
    /\ sc_timestamps[1].ts = 1
    /\ now = 1

InitTrie ==
    /\ now = 0
    /\ VicInit
    /\ ScInit
    /\ TrieInit
    /\ StoreInit
    /\ ClsInit
    /\ ThInit

NextTrie ==
    /\ \/ \E d \in TrieDomains, sv \in TrieServices : TrieAdd(d, sv)
       \/ \E u \in TrieUrls : TrieFind(u)
    /\ UNCHANGED <<now, vicVars, scVars, storeVars, clsVars, thVars>>

SpecTrie == InitTrie /\ [][NextTrie]_vars

(***************************************************************************)
(* Claims on DomainTrie, checked under SpecTrie                            *)
(***************************************************************************)
\* The domains registered in the trie and the service of each.
Registered == {d \in TrieDomains :
                  /\ Reverse([i \in 1..Len(d) |-> <<d[i]>>]) \in DOMAIN root
                  /\ root[Reverse([i \in 1..Len(d) |-> <<d[i]>>])] # NoMark}

ServiceOf(d) == root[Reverse([i \in 1..Len(d) |-> <<d[i]>>])]

\* host equals d or is a subdomain of d: the labels of d end the host's.
EqualsOrSubdomain(host, d) ==
    /\ Len(host) >= Len(d)
    /\ SubSeq(host, Len(host) - Len(d) + 1, Len(host)) = d

AnnotatedOnPath(host) == {d \in Registered : EqualsOrSubdomain(host, d)}

\* C26: find_service returns the service of the deepest annotated node on
\* the path of the host's labels (with a.com registered for X and b.a.com
\* for Y, Y for the host b.a.com), and the unknown service only when the
\* path holds no annotated node.
C26_DeepestAnnotationWins ==
    (trie_ret.op = "find" /\ ~trie_ret.arg.port) =>
        LET on == AnnotatedOnPath(trie_ret.arg.host) IN
        IF on = {} THEN trie_ret.result = UnknownService
        ELSE trie_ret.result =
                ServiceOf(CHOOSE d \in on : \A e \in on : Len(e) <= Len(d))

InitStore ==
    /\ now = 0
    /\ VicInit
    /\ ScInit
    /\ TrieInit
    /\ StoreInit
    /\ ClsInit
    /\ ThInit

NextStore ==
    /\ \/ \E rd \in ReadOutcomes, wr \in WriteOutcomes : StoreLoad(rd, wr)
       \/ \E wr \in WriteOutcomes : StoreSave(wr)
       \/ \E sv \in RegisterServices, pat \in RegisterPatterns,
             wr \in WriteOutcomes : StoreRegister(sv, pat, wr)
       \/ \E doc \in EditedDocs : StoreEdit(doc)
    /\ UNCHANGED <<now, vicVars, scVars, trieVars, clsVars, thVars>>

SpecStore == InitStore /\ [][NextStore]_vars

(***************************************************************************)
(* Claims on the pattern store, checked under SpecStore                    *)
(***************************************************************************)
NoDuplicates(q) == \A i, j \in 1..Len(q) : q[i] = q[j] => i = j

\* C10: after any sequence of load_patterns_from_config and
\* register_url_pattern calls no service's pattern list holds the same
\* pattern twice.
C10_NoDuplicatePatterns ==
    \A sv \in DOMAIN URL_PATTERNS : NoDuplicates(URL_PATTERNS[sv])

\* C11: whenever load_patterns_from_config returns failure (an I/O, parse or
\* document-shape error, also one met after some services of the document
\* were merged), URL_PATTERNS is what it was before the call.
C11_FailedLoadChangesNothing ==
    [][(store_ret'.op = "load" /\ ~store_ret'.result)
          => URL_PATTERNS' = URL_PATTERNS]_vars

\* C12: register_url_pattern(service, pattern) returns success exactly when
\* the service is known, the pattern is not in its list and the pattern
\* compiles; on success the pattern is appended at the end of the list and
\* save is called; on failure URL_PATTERNS and the file are unchanged and
\* save is not called.
C12_RegisterContract ==
    [][store_ret'.op = "register" =>
        LET sv  == store_ret'.service
            pat == store_ret'.pattern
            ok  == /\ sv \in DOMAIN URL_PATTERNS
                   /\ pat \notin SeqSet(URL_PATTERNS[sv])
                   /\ Compiles(pat)
        IN  /\ store_ret'.result <=> ok
            /\ ok => /\ URL_PATTERNS' =
                          [URL_PATTERNS EXCEPT ![sv] = Append(@, pat)]
                     /\ store_ret'.saved
            /\ ~ok => /\ URL_PATTERNS' = URL_PATTERNS
                      /\ cfg_file' = cfg_file
                      /\ ~store_ret'.saved]_vars

\* A registration succeeded: the pattern is the last of its service's list
\* and the file holds the patterns.
C12_Witness ==
    /\ store_ret.op = "register"
    /\ store_ret.result
    /\ store_ret.saved
    /\ URL_PATTERNS[store_ret.service][Len(URL_PATTERNS[store_ret.service])]
          = store_ret.pattern
    /\ cfg_file = DocOf(URL_PATTERNS)

\* q starts with p.
IsPrefix(p, q) == Len(p) <= Len(q) /\ SubSeq(q, 1, Len(p)) = p

\* C27: across load_patterns_from_config, save_patterns_to_config and
\* register_url_pattern calls the set of service names never changes and
\* every service's pattern list after a call starts with the list it was
\* before the call: no pattern is removed or moved.
C27_AppendOnly ==
    [][/\ DOMAIN URL_PATTERNS' = DOMAIN URL_PATTERNS
       /\ \A sv \in DOMAIN URL_PATTERNS :
              IsPrefix(URL_PATTERNS[sv], URL_PATTERNS'[sv])]_vars

\* A load merged a pattern of the file into a list that a registration had
\* extended before: both are behind the built-in patterns.
C27_Witness ==
    /\ store_ret.op = "load"
    /\ store_ret.result
    /\ Len(URL_PATTERNS["VK"]) = Len(BuiltinPatterns["VK"]) + 2
    /\ IsPrefix(BuiltinPatterns["VK"], URL_PATTERNS["VK"])

InitCls ==
    /\ now = 0
    /\ VicInit
    /\ ScInit
    /\ TrieInit
    /\ URL_PATTERNS = BuiltinPatterns
    /\ cfg_file \in StartFiles
    /\ store_ret = StoreRet("init", FALSE)
    /\ ClsInit
    /\ ThInit

NextCls ==
    /\ \/ ClsImport
       \/ \E url \in GsnUrls, pick \in BOOLEAN : ClsGetServiceName(url, pick)
       \/ \E url \in ValidUrls, pick \in BOOLEAN : ClsIsValid(url, pick)
       \/ ClsRegister("VK", VkMirror)
       \/ ClsInitCombinedPatterns
       \/ ClsTick
    /\ UNCHANGED <<vicVars, sc_ret, sc_lastset, trie_ret, thVars>>

SpecCls == InitCls /\ [][NextCls]_vars

(***************************************************************************)
(* Claims on classification and validation, checked under SpecCls          *)
(***************************************************************************)
\* The url matches a compiled pattern of some service.
MatchesCompiled(url) ==
    \E sv \in DOMAIN compiled_patterns :
        MatcherMatches(compiled_patterns[sv], url)

\* The case of C5: the last call was made on a url that starts with
\* "http://" or "https://", whose host the domain trie maps to a service,
\* and that matches no compiled pattern of any service.
KnownDomainUnknownFormat ==
    /\ cls_ret.raised = "none"
    /\ StartsHttp(cls_ret.url)
    /\ FindService(root, cls_ret.url) # UnknownService
    /\ ~MatchesCompiled(cls_ret.url)

\* C5: for a url that starts with "http://" or "https://", whose host the
\* domain trie maps to a service S and that matches no compiled pattern of
\* any service, get_service_name returns S and is_valid returns
\* (False, FormatMismatch(S)), whether the cache holds the url or not.
C5_LenientNameStrictValidity ==
    KnownDomainUnknownFormat =>
        LET S == FindService(root, cls_ret.url) IN
        /\ cls_ret.op = "get_service_name" => cls_ret.service = S
        /\ cls_ret.op = "is_valid" =>
              cls_ret.valid = FALSE /\ cls_ret.msg = FormatMismatch(S)

\* is_valid rejected a url of a known domain with the service's name in the
\* message, the name coming from the cache.
C5_Witness ==
    /\ KnownDomainUnknownFormat
    /\ cls_ret.op = "is_valid"
    /\ cls_ret.msg = FormatMismatch("YouTube")
    /\ cls_ret.hit

\* C6: two get_service_name calls on the same url return the same service,
\* whatever calls are made and however much time passes between them.
C6_SameUrlSameService ==
    cls_ret.compared => cls_ret.service = cls_first.service

\* A second call on the picked url computed the service again (the cache
\* did not hold it any more) after a pattern was registered.
C6_Witness ==
    /\ cls_ret.compared
    /\ cls_ret.op = "get_service_name"
    /\ ~cls_ret.hit
    /\ cls_ret.service = cls_first.service
    /\ Len(URL_PATTERNS["VK"]) > Len(BuiltinPatterns["VK"])
    /\ cfg_file = DocOf(URL_PATTERNS)

C8_MalformedPatternIsolated ==
    /\ cls_ret.raised # "re.error"
    /\ DOMAIN combined_patterns # {} =>
          \A sv \in DOMAIN URL_PATTERNS :
              (\A k \in 1..Len(URL_PATTERNS[sv]) : Compiles(URL_PATTERNS[sv][k]))
                  => sv \in DOMAIN compiled_patterns

\* The case of C17: a url that is not empty, has neither "http://" nor
\* "https://" in front and does not contain "://".
NoScheme(url) == url # <<>> /\ ~StartsHttp(url) /\ ~Contains(url, "://")

\* C17: a step that is an is_valid call (the clock stands still in it) on
\* such a url returns what is_valid on "https://" + url
\* returns from the same state (and leaves the same state), through exactly
\* one nested call; no call of is_valid nests deeper than one.
C17_SingleAutoCorrection ==
    [][(now' = now /\ cls_ret'.op = "is_valid") =>
          /\ cls_ret'.depth <= 1
          /\ NoScheme(cls_ret'.url) =>
                \E direct \in {IsValid(ClsState, <<"https", "://">> \o cls_ret'.url,
                                        now, "ok", "ok")} :
                    /\ cls_ret'.depth = 1
                    /\ cls_ret'.valid = direct.valid
                    /\ cls_ret'.msg = direct.msg
                    /\ ClsState' = direct.st]_vars

\* is_valid corrected a url of a known domain and refused the corrected
\* url for its format.
C17_Witness ==
    /\ cls_ret.op = "is_valid"
    /\ NoScheme(cls_ret.url)
    /\ cls_ret.depth = 1
    /\ cls_ret.msg = FormatMismatch("YouTube")

InitCompleted == DOMAIN compiled_patterns = DOMAIN URL_PATTERNS

\* C20: a call of _init_combined_patterns made after one has completed
\* leaves the combined texts and the compiled matchers as they were, and
\* every url matches the same service's matcher as before.
C20_InitIdempotent ==
    [][(now' = now /\ cls_ret'.op = "_init_combined_patterns" /\ InitCompleted) =>
          /\ compiled_patterns' = compiled_patterns
          /\ combined_patterns' = combined_patterns
          /\ cls_ret'.raised = "none"
          /\ \A url \in GsnUrls :
                FirstMatching(ClsState', url) = FirstMatching(ClsState, url)]_vars

\* A call was made after a pattern had been registered for VK: the matcher
\* of VK is the one compiled before the registration.
C20_Witness ==
    /\ cls_ret.op = "_init_combined_patterns"
    /\ InitCompleted
    /\ Len(URL_PATTERNS["VK"]) > Len(compiled_patterns["VK"].alts)

\* The step is a get_service_name call on a url that is not empty, and the
\* call returned.
GsnReturned ==
    /\ cls_ret'.op = "get_service_name"
    /\ now' = now
    /\ cls_ret'.url # <<>>
    /\ cls_ret'.raised = "none"

\* The cache holds url with service, stored at time t.
Cached(c, ts, url, service, t) ==
    /\ url \in DictKeys(c)
    /\ c[DictIndex(c, url)].service = service
    /\ ts[DictIndex(ts, url)].ts = t

\* C22: a get_service_name call on a non-empty url that misses the cache
\* stores the url with the service it returns, the unknown service
\* included, before it returns; a call on a url that the cache holds for
\* less than the TTL is answered from the cache with the stored service.
C22_WriteBack ==
    [][GsnReturned =>
         /\ ~cls_ret'.hit =>
                Cached(sc_cache', sc_timestamps', cls_ret'.url,
                       cls_ret'.service, now)
         /\ (/\ cls_ret'.url \in DictKeys(sc_cache)
             /\ ScFresh(sc_timestamps[DictIndex(sc_timestamps, cls_ret'.url)].ts, now))
            => /\ cls_ret'.hit
               /\ cls_ret'.service =
                      sc_cache[DictIndex(sc_cache, cls_ret'.url)].service]_vars

\* A call was answered from the cache with the unknown service.
C22_Witness ==
    /\ cls_ret.op = "get_service_name"
    /\ cls_ret.url # <<>>
    /\ cls_ret.hit
    /\ cls_ret.service = UnknownService

\* C23: a get_service_name call that the cache answers returns the cached
\* service and leaves everything as it was: the cache entry and its
\* timestamp, the log of unknown formats, the trie, the patterns and the
\* matchers; it emits no diagnostic.
C23_HitShortCircuit ==
    [][(GsnReturned /\ cls_ret'.hit) =>
         /\ cls_ret'.service = sc_cache[DictIndex(sc_cache, cls_ret'.url)].service
         /\ cls_ret'.logged = <<>>
         /\ UNCHANGED <<sc_cache, sc_timestamps, unknown_log, root,
                        URL_PATTERNS, cfg_file, combined_patterns,
                        compiled_patterns, patterns_loaded,
                        trie_initialized>>]_vars

\* The cache answered for a url that a miss would have logged as an unknown
\* format.
C23_Witness ==
    /\ cls_ret.op = "get_service_name"
    /\ cls_ret.hit
    /\ cls_ret.logged = <<>>
    /\ Classify(ClsState, cls_ret.url).logged # <<>>

\* The step is a get_service_name call that the cache did not answer.
GsnMissed == GsnReturned /\ ~cls_ret'.hit

\* The url matches a compiled pattern of service sv, as the call found
\* them.
MatchesOwn(sv, url) ==
    /\ sv \in DOMAIN compiled_patterns'
    /\ MatcherMatches(compiled_patterns'[sv], url)

ClsStateNext ==
    [patterns |-> URL_PATTERNS', file |-> cfg_file',
     combined |-> combined_patterns', compiled |-> compiled_patterns',
     loaded |-> patterns_loaded', trie_init |-> trie_initialized',
     root |-> root', cache |-> sc_cache', timestamps |-> sc_timestamps',
     log |-> unknown_log']

\* What get_service_name(url) and is_valid(url) answer to a caller in state
\* st at time t.
AnswersIn(st, url, t) ==
    LET g == GetServiceName(st, url, t, "ok", "ok")
        v == IsValid(st, url, t, "ok", "ok")
    IN  <<g.service, g.raised, v.valid, v.msg, v.service, v.raised>>

\* C35: a successful register_url_pattern changes only the pattern list and
\* the configuration file; the compiled matchers, the trie and the
\* classification cache are left alone, and once the matchers have been
\* compiled is_valid and get_service_name answer for every url what they
\* answered before the registration.
C35_RegistrationInert ==
    [][(cls_ret'.op = "register" /\ store_ret'.op = "register"
        /\ store_ret'.result /\ store_ret' # store_ret)
       => /\ URL_PATTERNS' # URL_PATTERNS
          /\ UNCHANGED <<combined_patterns, compiled_patterns, root,
                         trie_initialized, patterns_loaded, sc_cache,
                         sc_timestamps>>
          /\ (DOMAIN combined_patterns # {}
              => \A url \in ValidUrls :
                    AnswersIn(ClsStateNext, url, now)
                      = AnswersIn(ClsState, url, now))]_vars

\* A pattern was registered after the matchers were compiled, and a url it
\* describes is still answered by "unknown service".
C35_Witness ==
    /\ cls_ret.op = "register"
    /\ store_ret.op = "register"
    /\ store_ret.result
    /\ patterns_loaded
    /\ "VK" \in DOMAIN compiled_patterns
    /\ Len(URL_PATTERNS["VK"]) > Len(compiled_patterns["VK"].alts)
    /\ GetServiceName(ClsState, <<"https", "://", "vk", ".", "me", "/", "video">>,
                      now, "ok", "ok").service = UnknownService

AddToQueue(st, queue, url, mode, resolution, t) ==
    LET v == IsValid(st, url, t, "ok", "ok") IN
    IF ~v.valid
    THEN [st |-> v.st, queue |-> queue, result |-> FALSE, raised |-> "none"]
    ELSE LET g == GetServiceName(v.st, url, t, "ok", "ok") IN
         IF g.raised # "none"
         THEN [st |-> g.st, queue |-> queue, result |-> FALSE, raised |-> g.raised]
         ELSE [st |-> g.st,
               queue |-> Append(queue, [url |-> url, mode |-> mode,
                                        resolution |-> resolution,
                                        service |-> g.service]),
               result |-> TRUE, raised |-> "none"]

\* The urls of the model that start with "http://" or "https://".
HttpUrls == {url \in ValidUrls : url # <<>> /\ StartsHttp(url)}

\* C37: in every state of the caches, a url that starts with http:// or
\* https:// and that is_valid accepts is given a known service by
\* get_service_name, called in the same state or after is_valid: add_to_queue,
\* which calls the two in a row, appends for it an entry that carries that
\* known service.
C37_ValidImpliesLabelled ==
    \A url \in HttpUrls :
        \A a \in {AddToQueue(ClsState, <<>>, url, "video", NoneValue, now)} :
            /\ a.raised = "none"
            /\ a.result =>
                  /\ Len(a.queue) = 1
                  /\ a.queue[1].url = url
                  /\ a.queue[1].service # UnknownService
                  /\ a.queue[1].service \in DOMAIN URL_PATTERNS
                  /\ GetServiceName(ClsState, url, now, "ok", "ok").service
                       = a.queue[1].service

\* is_valid has accepted a url of a domain that the trie does not hold, in
\* a class that is_valid initialised without the trie, and add_to_queue
\* appends the url with its service.
C37_Witness ==
    /\ cls_ret.op = "is_valid"
    /\ cls_ret.valid
    /\ cls_ret.url = <<"https", "://", "vk", ".", "me", "/", "video">>
    /\ patterns_loaded
    /\ ~trie_initialized
    /\ AddToQueue(ClsState, <<>>, cls_ret.url, "video", NoneValue, now).queue
         = <<[url |-> cls_ret.url, mode |-> "video", resolution |-> NoneValue,
              service |-> "VK"]>>

(***************************************************************************)
(* Urls that hold a domain's text outside the host: SpecFallback           *)
(***************************************************************************)
\* "sub in s" for texts.
IsInfix(sub, s) ==
    \E i \in 0..(Len(s) - Len(sub)) : SubSeq(s, i + 1, i + Len(sub)) = sub

\* A url of a host that the trie does not hold, that matches no pattern and
\* has the text of a domain of the trie in its path.
DomainInPath == <<"https", "://", "example", ".", "org", "/", "vk", ".", "com">>

\* The urls classified in SpecFallback: that one, one of a known domain and
\* unknown format, and one that holds no known domain at all.
FallbackUrls ==
    {DomainInPath,
     <<"https", "://", "www", ".", "youtube", ".", "com", "/", "other">>,
     <<"https", "://", "vk", ".", "me", "/", "video">>}

InitFallback == InitCls

NextFallback ==
    /\ \/ ClsImport
       \/ \E url \in FallbackUrls, pick \in BOOLEAN : ClsGetServiceName(url, pick)
       \/ ClsTick
    /\ UNCHANGED <<vicVars, sc_ret, sc_lastset, trie_ret, thVars>>

SpecFallback == InitFallback /\ [][NextFallback]_vars

\* The services of the known domains whose text is part of the url, in the
\* order of the table of domains.
DomainsIn(url) ==
    SelectSeq(DomainMap, LAMBDA e : IsInfix(e.domain, url))

\* C25: when the trie finds no service for the url and no compiled pattern
\* of any service matches it, get_service_name looks for a known domain
\* whose text is part of the url: if there is one, it logs the url as an
\* unknown format of that domain's service and returns the service;
\* otherwise it returns the unknown service.
C25_DomainSubstringFallback ==
    [][(/\ GsnMissed
        /\ FindService(root', cls_ret'.url) = UnknownService
        /\ \A sv \in DOMAIN compiled_patterns' : ~MatchesOwn(sv, cls_ret'.url))
       => LET found == DomainsIn(cls_ret'.url) IN
          IF found # <<>>
          THEN /\ cls_ret'.service = found[1].service
               /\ cls_ret'.logged =
                     <<[service |-> found[1].service, url |-> cls_ret'.url]>>
          ELSE /\ cls_ret'.service = UnknownService
               /\ cls_ret'.logged = <<>>]_vars

(***************************************************************************)
(* The two compiled forms of a service's patterns: SpecMatch               *)
(* The patterns of YouTube are drawn from a pool, compiled by              *)
(* _init_combined_patterns and tried on urls.                              *)
(***************************************************************************)
\* "^https://cdn\.example/(v)$": a capturing group.
CdnGroup == Capturing(<<Lit(<<"https", "://", "cdn", ".", "example", "/", "v">>)>>,
                      TRUE, 0)

\* "^https://mirror\.example/(v)/\1$": a group and a reference to it.
MirrorBackref ==
    Capturing(<<Lit(<<"https", "://", "mirror", ".", "example", "/", "v", "/", "v">>)>>,
              TRUE, 1)

\* "^https://video\.example/": a pattern with no "$" at its end.
VideoPrefix ==
    Pattern(<<Lit(<<"https", "://", "video", ".", "example", "/">>)>>, FALSE, "", TRUE)

MatchPool == {YtWatch, YtShorts, VkMirror, CdnGroup, MirrorBackref, VideoPrefix}

\* The pattern lists of YouTube in SpecMatch: one or two patterns of the
\* pool.
MatchLists ==
    {<<p>> : p \in MatchPool} \cup
    {<<p, q>> : <<p, q>> \in {pq \in MatchPool \X MatchPool : pq[1] # pq[2]}}

MatchUrls ==
    {<<"https", "://", "youtube", ".", "com", "/", "watch">>,
     <<"https", "://", "youtube", ".", "com", "/", "shorts">>,
     <<"https", "://", "vk", ".", "me", "/", "video">>,
     <<"https", "://", "cdn", ".", "example", "/", "v">>,
     <<"https", "://", "mirror", ".", "example", "/", "v", "/", "v">>,
     <<"https", "://", "mirror", ".", "example", "/", "v">>,
     <<"https", "://", "video", ".", "example", "/">>,
     <<"https", "://", "video", ".", "example", "/", "more">>}

\* "compiled_pattern.match(url)" or the loop over the list, for the
\* compiled form of service sv.
MatchCompiled(sv, url) ==
    /\ sv \in DOMAIN compiled_patterns
    /\ cls_ret' = [op |-> "match", url |-> url,
                   valid |-> MatcherMatches(compiled_patterns[sv], url),
                   msg |-> NoMessage, service |-> sv, raised |-> "none",
                   logged |-> <<>>, hit |-> FALSE, compared |-> FALSE,
                   depth |-> 0]
    /\ UNCHANGED <<now, root, sc_cache, sc_timestamps, storeVars,
                   combined_patterns, compiled_patterns, patterns_loaded,
                   trie_initialized, unknown_log, cls_pc, cls_first>>

InitMatch ==
    /\ now = 0
    /\ VicInit
    /\ ScInit
    /\ TrieInit
    /\ \E ps \in MatchLists :
          URL_PATTERNS = [BuiltinPatterns EXCEPT !["YouTube"] = ps]
    /\ cfg_file = AbsentFile
    /\ store_ret = StoreRet("init", FALSE)
    /\ ClsInit
    /\ ThInit

NextMatch ==
    /\ \/ ClsInitCombinedPatterns
       \/ \E sv \in PatternServices, url \in MatchUrls : MatchCompiled(sv, url)
    /\ UNCHANGED <<vicVars, sc_ret, sc_lastset, trie_ret, thVars>>

SpecMatch == InitMatch /\ [][NextMatch]_vars

\* C28: matching a url against the compiled form of a service gives the
\* same answer for the combined alternation and for the list of patterns
\* compiled one by one: true if and only if the url matches at least one of
\* the patterns that the service had when it was compiled.
C28_CompiledFormsEquivalent ==
    cls_ret.op = "match" =>
        (cls_ret.valid <=>
            MatchesOnePattern(compiled_patterns[cls_ret.service], cls_ret.url))

\* The pattern describes the whole of s: its items use s up.
DescribesAll(pat, s) == <<>> \in Remainders(pat.items, s)

\* C29: a url counts as matching a service only if one of the service's
\* patterns, with or without "$" at its end, describes the entire url; a
\* url of which only a proper prefix matches is no match.
C29_FullStringMatch ==
    (cls_ret.op = "match" /\ cls_ret.valid) =>
        \E k \in 1..Len(compiled_patterns[cls_ret.service].alts) :
            DescribesAll(compiled_patterns[cls_ret.service].alts[k], cls_ret.url)

(***************************************************************************)
(* VideoInfoCache called from several threads                               *)
(* A call is a sequence of steps of its thread; the steps of different      *)
(* threads interleave. "with self._lock:" is entered when no other thread   *)
(* holds the lock and left at the end of the block.                         *)
(***************************************************************************)
VtUrls == {"u1", "u2"}
VtInfos == {"a"}

\* The instants at which the clock is read: the cleanup interval not yet
\* exceeded and exceeded.
VtTimes == {0, 301}

VtAt(t, pc) == vic_threads[t].pc = pc

VtGoto(t, pc) == vic_threads' = [vic_threads EXCEPT ![t].pc = pc]

\* get(url): "with self._lock:" is entered.
VtGetEnter(t, url) ==
    /\ VtAt(t, "idle")
    /\ vic_lock = "free"
    /\ vic_lock' = t
    /\ vic_threads' = [vic_threads EXCEPT ![t] = [pc |-> "get_sweep", url |-> url,
                                                  info |-> ""]]
    /\ UNCHANGED <<now, vicVars>>

\* get: self._periodic_cleanup()
VtGetSweep(t, exceeded) ==
    /\ VtAt(t, "get_sweep")
    /\ \E p \in {PeriodicCleanup(vic_cache, cache_size_bytes, last_cleanup, now,
                                 exceeded)} :
          /\ vic_cache' = p.cache
          /\ cache_size_bytes' = p.bytes
          /\ last_cleanup' = p.last
    /\ VtGoto(t, "get_lookup")
    /\ UNCHANGED <<now, vic_lock, vic_file, vic_ret, vic_uses>>

\* get: the lookup and the return (or the exception of a miss); the block
\* is left and the lock released.
VtGetLookup(t) ==
    /\ VtAt(t, "get_lookup")
    /\ vic_cache' = GetLookup(vic_cache, vic_threads[t].url).cache
    /\ vic_lock' = "free"
    /\ VtGoto(t, "idle")
    /\ UNCHANGED <<now, cache_size_bytes, last_cleanup, vic_file, vic_ret, vic_uses>>

\* set(url, info): key and info_size are computed; no lock is taken.
VtSetEnter(t, url, info) ==
    /\ VtAt(t, "idle")
    /\ vic_threads' = [vic_threads EXCEPT ![t] = [pc |-> "set_loop", url |-> url,
                                                  info |-> info]]
    /\ UNCHANGED <<now, vic_lock, vicVars>>

\* set: one test of the "while" condition and, if it holds, one pass of the
\* loop body.
VtSetLoop(t) ==
    /\ VtAt(t, "set_loop")
    /\ IF /\ \/ Len(vic_cache) >= MetaMaxSize
             \/ cache_size_bytes + EstimateSize(vic_threads[t].info) > MetaMaxBytes
          /\ vic_cache # <<>>
       THEN /\ vic_cache' = Tail(vic_cache)
            /\ cache_size_bytes' = cache_size_bytes - EstimateSize(Head(vic_cache).info)
            /\ UNCHANGED vic_threads
       ELSE /\ VtGoto(t, "set_insert")
            /\ UNCHANGED <<vic_cache, cache_size_bytes>>
    /\ UNCHANGED <<now, vic_lock, last_cleanup, vic_file, vic_ret, vic_uses>>

\* set: self.cache[key] = info
VtSetInsert(t) ==
    /\ VtAt(t, "set_insert")
    /\ vic_cache' = DictAssign(vic_cache, GetKey(vic_threads[t].url),
                               vic_threads[t].info)
    /\ VtGoto(t, "set_count")
    /\ UNCHANGED <<now, vic_lock, cache_size_bytes, last_cleanup, vic_file,
                   vic_ret, vic_uses>>

\* set: self.cache_size_bytes += info_size
VtSetCount(t) ==
    /\ VtAt(t, "set_count")
    /\ cache_size_bytes' = cache_size_bytes + EstimateSize(vic_threads[t].info)
    /\ VtGoto(t, "set_save")
    /\ UNCHANGED <<now, vic_lock, vic_cache, last_cleanup, vic_file, vic_ret,
                   vic_uses>>

\* set: self.save_to_file(), which reads every entry (the file system doing
\* its part).
VtSetSave(t) ==
    /\ VtAt(t, "set_save")
    /\ vic_file' = SaveToFile(vic_file, vic_cache, "ok")
    /\ VtGoto(t, "idle")
    /\ UNCHANGED <<now, vic_lock, vic_cache, cache_size_bytes, last_cleanup,
                   vic_ret, vic_uses>>

\* The clock moves on while threads run.
VtTick ==
    /\ \E t \in VtTimes : t > now /\ now' = t
    /\ UNCHANGED <<vic_lock, vic_threads, vicVars>>

InitMetaThreads ==
    /\ now = 0
    /\ VicInit
    /\ ScInit
    /\ TrieInit
    /\ StoreInit
    /\ ClsInit
    /\ ThInit

NextMetaThreads ==
    /\ \/ \E t \in Threads, u \in VtUrls : VtGetEnter(t, u)
       \/ \E t \in Threads, exceeded \in BOOLEAN : VtGetSweep(t, exceeded)
       \/ \E t \in Threads : VtGetLookup(t)
       \/ /\ cache_size_bytes \in -(2 * MetaMaxBytes)..(2 * MetaMaxBytes)
          /\ \E t \in Threads, u \in VtUrls, i \in VtInfos : VtSetEnter(t, u, i)
       \/ \E t \in Threads : VtSetLoop(t)
       \/ \E t \in Threads : VtSetInsert(t)
       \/ \E t \in Threads : VtSetCount(t)
       \/ \E t \in Threads : VtSetSave(t)
       \/ VtTick
    /\ UNCHANGED <<scVars, trieVars, storeVars, clsVars, sc_threads,
                   cls_threads, cls_counts, sc_max, sc_calls, dmVars>>

\* Without the lock the byte counter drifts without limit under some
\* interleavings; set is entered while it is within twice the byte limit.
SpecMetaThreads == InitMetaThreads /\ [][NextMetaThreads]_vars

\* The thread is inside get, set or the sweep: at a step that reads or
\* changes the entries or the byte counter.
VtInside(t) ==
    vic_threads[t].pc \in {"get_sweep", "get_lookup", "set_loop", "set_insert",
                           "set_count", "set_save"}

\* C13: a thread inside get, set or the sweep holds the cache lock, and no
\* two threads are inside at the same time.
C13_SerialisedByLock ==
    /\ \A t \in Threads : VtInside(t) => vic_lock = t
    /\ \A t, u \in Threads : (VtInside(t) /\ VtInside(u)) => t = u

(***************************************************************************)
(* ServiceCache called from several threads                                 *)
(* ServiceCache has no lock. A step of a thread is one statement on the     *)
(* dictionaries (a test, a read, an assignment, a del); "d[k]" and "del     *)
(* d[k]" raise KeyError for a key that d does not hold. The scan of         *)
(* _cleanup_old_entries over self.timestamps is taken in one step.          *)
(***************************************************************************)
StUrls == {"u1", "u2"}

StIdle(raised) ==
    [pc |-> "idle", url |-> "", service |-> "", at |-> 0, keys |-> <<>>,
     phase |-> 0, raised |-> raised]

StAt(t, pc) == sc_threads[t].pc = pc

\* The thread goes on to pc.
StGoto(t, pc) == sc_threads' = [sc_threads EXCEPT ![t].pc = pc]

\* The call of the thread ends: it returned (raised "none") or raised.
StEnd(t, raised) == sc_threads' = [sc_threads EXCEPT ![t] = StIdle(raised)]

\* get(url): current_time = time.time(); "if url in self.cache"
StGetEnter(t, url) ==
    /\ StAt(t, "idle")
    /\ IF url \in DictKeys(sc_cache)
       THEN sc_threads' = [sc_threads EXCEPT ![t] =
                [StIdle("none") EXCEPT !.pc = "get_ts", !.url = url, !.at = now]]
       ELSE StEnd(t, "none")
    /\ UNCHANGED <<now, scVars>>

\* get: "if current_time - self.timestamps[url] < self.ttl"
StGetTs(t) ==
    /\ StAt(t, "get_ts")
    /\ LET url == sc_threads[t].url IN
       IF url \notin DictKeys(sc_timestamps)
       THEN StEnd(t, "KeyError")
       ELSE IF ScFresh(sc_timestamps[DictIndex(sc_timestamps, url)].ts,
                       sc_threads[t].at)
       THEN StGoto(t, "get_ret")
       ELSE StGoto(t, "get_del_c")
    /\ UNCHANGED <<now, scVars>>

\* get: "return self.cache[url]"
StGetRet(t) ==
    /\ StAt(t, "get_ret")
    /\ StEnd(t, IF sc_threads[t].url \in DictKeys(sc_cache)
                THEN "none" ELSE "KeyError")
    /\ UNCHANGED <<now, scVars>>

\* "del self.cache[key]" of get (key its url) or of the sweep (key the first
\* of the keys it still has to delete); next is where the thread goes on.
StDelCache(t, pc, key, next) ==
    /\ StAt(t, pc)
    /\ IF key \in DictKeys(sc_cache)
       THEN /\ sc_cache' = DictDel(sc_cache, key)
            /\ StGoto(t, next)
       ELSE /\ StEnd(t, "KeyError")
            /\ UNCHANGED sc_cache
    /\ UNCHANGED <<now, sc_timestamps, sc_ret, sc_lastset>>

\* get: "del self.cache[url]"
StGetDelCache(t) == StDelCache(t, "get_del_c", sc_threads[t].url, "get_del_t")

\* get: "del self.timestamps[url]"; get returns None.
StGetDelTs(t) ==
    /\ StAt(t, "get_del_t")
    /\ IF sc_threads[t].url \in DictKeys(sc_timestamps)
       THEN /\ sc_timestamps' = DictDel(sc_timestamps, sc_threads[t].url)
            /\ StEnd(t, "none")
       ELSE /\ StEnd(t, "KeyError")
            /\ UNCHANGED sc_timestamps
    /\ UNCHANGED <<now, sc_cache, sc_ret, sc_lastset>>

\* set(url, service): current_time = time.time();
\* "if len(self.cache) >= self.max_size"
StSetEnter(t, url, service) ==
    /\ StAt(t, "idle")
    /\ sc_threads' = [sc_threads EXCEPT ![t] =
          [StIdle("none") EXCEPT
              !.pc = IF Len(sc_cache) >= SvcMaxSize THEN "sweep_scan" ELSE "set_c",
              !.url = url, !.service = service, !.at = now]]
    /\ UNCHANGED <<now, scVars>>

\* Where the sweep goes on when it has keys to delete, and when it has not:
\* after the expired keys (phase 1) the test of fullness, after the oldest
\* keys (phase 2) the assignments of set.
StSweepNext(keys, phase) ==
    IF keys # <<>> THEN "sweep_del_c"
    ELSE IF phase = 1 THEN "sweep_full" ELSE "set_c"

\* _cleanup_old_entries: the loop that collects expired_keys.
StSweepScan(t) ==
    /\ StAt(t, "sweep_scan")
    /\ LET expired == SelectSeq(sc_timestamps, LAMBDA x : now - x.ts >= SvcTTL)
           keys == [i \in 1..Len(expired) |-> expired[i].url]
       IN  sc_threads' = [sc_threads EXCEPT ![t].keys = keys, ![t].phase = 1,
                                            ![t].pc = StSweepNext(keys, 1)]
    /\ UNCHANGED <<now, scVars>>

\* _cleanup_old_entries: "del self.cache[key]"
StSweepDelCache(t) ==
    /\ sc_threads[t].keys # <<>>
    /\ StDelCache(t, "sweep_del_c", Head(sc_threads[t].keys), "sweep_del_t")

\* _cleanup_old_entries: "del self.timestamps[key]" and the next key.
StSweepDelTs(t) ==
    /\ StAt(t, "sweep_del_t")
    /\ LET key  == Head(sc_threads[t].keys)
           rest == Tail(sc_threads[t].keys)
       IN  IF key \in DictKeys(sc_timestamps)
           THEN /\ sc_timestamps' = DictDel(sc_timestamps, key)
                /\ sc_threads' = [sc_threads EXCEPT ![t].keys = rest,
                      ![t].pc = StSweepNext(rest, sc_threads[t].phase)]
           ELSE /\ StEnd(t, "KeyError")
                /\ UNCHANGED sc_timestamps
    /\ UNCHANGED <<now, sc_cache, sc_ret, sc_lastset>>

\* _cleanup_old_entries: "if len(self.cache) >= self.max_size", sorted_items
\* and to_remove.
StSweepFull(t) ==
    /\ StAt(t, "sweep_full")
    /\ LET sorted_items == SortedByTs(sc_timestamps)
           to_remove == Len(sorted_items) - SvcMaxSize + SvcMargin
           cut == SliceTo(sorted_items, to_remove)
           keys == IF Len(sc_cache) >= SvcMaxSize
                   THEN [i \in 1..Len(cut) |-> cut[i].url] ELSE <<>>
       IN  sc_threads' = [sc_threads EXCEPT ![t].keys = keys, ![t].phase = 2,
                                            ![t].pc = StSweepNext(keys, 2)]
    /\ UNCHANGED <<now, scVars>>

\* set: "self.cache[url] = service"
StSetCache(t) ==
    /\ StAt(t, "set_c")
    /\ sc_cache' = DictPut(sc_cache, sc_threads[t].url, "service",
                           sc_threads[t].service)
    /\ StGoto(t, "set_t")
    /\ UNCHANGED <<now, sc_timestamps, sc_ret, sc_lastset>>

\* set: "self.timestamps[url] = current_time"
StSetTs(t) ==
    /\ StAt(t, "set_t")
    /\ sc_timestamps' = DictPut(sc_timestamps, sc_threads[t].url, "ts",
                                sc_threads[t].at)
    /\ StEnd(t, "none")
    /\ UNCHANGED <<now, sc_cache, sc_ret, sc_lastset>>

\* The instants at which the clock is read: 0 and one TTL later.
StTimes == {0, 3600}

\* The clock moves on while threads run.
StTick ==
    /\ \E t \in StTimes : t > now /\ now' = t
    /\ UNCHANGED <<scVars, sc_threads>>

InitSvcThreads ==
    /\ now = 0
    /\ VicInit
    /\ ScInit
    /\ TrieInit
    /\ StoreInit
    /\ ClsInit
    /\ ThInit

NextSvcThreads ==
    /\ \/ \E t \in Threads, u \in StUrls : StGetEnter(t, u)
       \/ \E t \in Threads : StGetTs(t)
       \/ \E t \in Threads : StGetRet(t)
       \/ \E t \in Threads : StGetDelCache(t)
       \/ \E t \in Threads : StGetDelTs(t)
       \/ \E t \in Threads, u \in StUrls : StSetEnter(t, u, "YouTube")
       \/ \E t \in Threads : StSweepScan(t)
       \/ \E t \in Threads : StSweepDelCache(t)
       \/ \E t \in Threads : StSweepDelTs(t)
       \/ \E t \in Threads : StSweepFull(t)
       \/ \E t \in Threads : StSetCache(t)
       \/ \E t \in Threads : StSetTs(t)
       \/ StTick
    /\ UNCHANGED <<vicVars, trieVars, storeVars, clsVars, vic_lock, vic_threads,
                   cls_threads, cls_counts, sc_max, sc_calls, dmVars>>

SpecSvcThreads == InitSvcThreads /\ [][NextSvcThreads]_vars

\* C15: no ServiceCache call of any thread fails, and whenever no call is
\* under way the entry map and the timestamp map hold the same urls.
C15_AtomicCalls ==
    /\ \A t \in Threads : sc_threads[t].raised = "none"
    /\ (\A t \in Threads : StAt(t, "idle")) =>
          DictKeys(sc_cache) = DictKeys(sc_timestamps)

(***************************************************************************)
(* get_service_name and is_valid called from several threads while the      *)
(* class is not initialised (the statements at the end of the module have   *)
(* not run). VideoURL has no lock. A step of a thread is one statement of   *)
(* "if not cls._patterns_loaded: ..." (one pass of the loop in              *)
(* _init_combined_patterns), or the rest of the call.                       *)
(***************************************************************************)
CtUrls ==
    {<<"https", "://", "youtube", ".", "com", "/", "watch">>,
     <<"https", "://", "vk", ".", "me", "/", "video">>}

CtOps == {"get_service_name", "is_valid"}

CtIdle == [pc |-> "idle", op |-> "", url |-> <<>>, i |-> 0]

CtAt(t, pc) == cls_threads[t].pc = pc

CtGoto(t, pc) == cls_threads' = [cls_threads EXCEPT ![t].pc = pc]

\* One pass of the loop of _init_combined_patterns, for the i-th service.
CompileOne(st, i) ==
    LET sv  == ServiceOrder[i]
        ps  == st.patterns[sv]
        st1 == [st EXCEPT !.combined = (sv :> ps) @@ @]
    IN  IF CombinedCompiles(ps)
        THEN [st |-> [st1 EXCEPT !.compiled =
                         (sv :> [kind |-> "combined", alts |-> ps]) @@ @],
              raised |-> "none"]
        ELSE IF \A k \in 1..Len(ps) : Compiles(ps[k])
        THEN [st |-> [st1 EXCEPT !.compiled =
                         (sv :> [kind |-> "list", alts |-> ps]) @@ @],
              raised |-> "none"]
        ELSE [st |-> st1, raised |-> "re.error"]

\* The call begins: get_service_name looks the url up in the cache and
\* returns on a hit; then both test "if not cls._patterns_loaded".
CtEnter(t, op, url) ==
    /\ CtAt(t, "idle")
    /\ \E g \in {IF op = "get_service_name"
                 THEN ScGet(sc_cache, sc_timestamps, url, now)
                 ELSE [cache |-> sc_cache, timestamps |-> sc_timestamps,
                       result |-> NoneValue]} :
          /\ ClsAssign([ClsState EXCEPT !.cache = g.cache,
                                        !.timestamps = g.timestamps])
          /\ cls_threads' = [cls_threads EXCEPT ![t] =
                IF g.result # NoneValue THEN CtIdle
                ELSE [pc |-> IF patterns_loaded THEN "match" ELSE "load",
                      op |-> op, url |-> url, i |-> 0]]
    /\ UNCHANGED cls_counts

\* cls.load_patterns_from_config()
CtLoad(t) ==
    /\ CtAt(t, "load")
    /\ ClsAssign(LoadInto(ClsState, "ok", "ok"))
    /\ cls_counts' = [cls_counts EXCEPT !.load = @ + 1]
    /\ CtGoto(t, "compile_test")

\* Where a thread goes on after _init_combined_patterns: get_service_name
\* to _init_domain_trie, is_valid to "_patterns_loaded = True".
CtAfterCompile(t) ==
    IF cls_threads[t].op = "get_service_name" THEN "trie_test" ELSE "set_loaded"

\* _init_combined_patterns: "if not cls._combined_patterns"
CtCompileTest(t) ==
    /\ CtAt(t, "compile_test")
    /\ IF DOMAIN combined_patterns = {}
       THEN /\ cls_threads' = [cls_threads EXCEPT ![t].pc = "compile", ![t].i = 1]
            /\ cls_counts' = [cls_counts EXCEPT !.compile = @ + 1]
       ELSE /\ CtGoto(t, CtAfterCompile(t))
            /\ UNCHANGED cls_counts
    /\ ClsAssign(ClsState)

\* _init_combined_patterns: one pass of the loop over the services.
CtCompile(t) ==
    /\ CtAt(t, "compile")
    /\ \E c \in {CompileOne(ClsState, cls_threads[t].i)} :
          /\ ClsAssign(c.st)
          /\ cls_threads' = [cls_threads EXCEPT ![t] =
                IF c.raised # "none" THEN CtIdle
                ELSE IF cls_threads[t].i = Len(ServiceOrder)
                THEN [@ EXCEPT !.pc = CtAfterCompile(t)]
                ELSE [@ EXCEPT !.i = @ + 1]]
    /\ UNCHANGED cls_counts

\* _init_domain_trie: "if not cls._trie_initialized"
CtTrieTest(t) ==
    /\ CtAt(t, "trie_test")
    /\ IF ~trie_initialized
       THEN /\ CtGoto(t, "trie_build")
            /\ cls_counts' = [cls_counts EXCEPT !.trie = @ + 1]
       ELSE /\ CtGoto(t, "set_loaded")
            /\ UNCHANGED cls_counts
    /\ ClsAssign(ClsState)

\* _init_domain_trie: the domains are added and the flag is set.
CtTrieBuild(t) ==
    /\ CtAt(t, "trie_build")
    /\ ClsAssign([ClsState EXCEPT !.root = AddDomains(@, DomainMap, 1),
                                  !.trie_init = TRUE])
    /\ CtGoto(t, "set_loaded")
    /\ UNCHANGED cls_counts

\* "cls._patterns_loaded = True"
CtSetLoaded(t) ==
    /\ CtAt(t, "set_loaded")
    /\ ClsAssign([ClsState EXCEPT !.loaded = TRUE])
    /\ CtGoto(t, "match")
    /\ UNCHANGED cls_counts

\* The rest of the call: the matching, and what follows it.
CtMatch(t) ==
    /\ CtAt(t, "match")
    /\ \E r \in {IF cls_threads[t].op = "get_service_name"
                 THEN GsnStore(ClsState, Classify(ClsState, cls_threads[t].url),
                               cls_threads[t].url, now)
                 ELSE IsValidMatch([st |-> ClsState, raised |-> "none"],
                                   cls_threads[t].url, now, "ok", "ok")} :
          ClsAssign(r.st)
    /\ cls_threads' = [cls_threads EXCEPT ![t] = CtIdle]
    /\ UNCHANGED cls_counts

InitClsThreads ==
    /\ now = 0
    /\ VicInit
    /\ ScInit
    /\ TrieInit
    /\ StoreInit
    /\ ClsInit
    /\ ThInit

NextClsThreads ==
    /\ \/ \E t \in Threads, op \in CtOps, url \in CtUrls : CtEnter(t, op, url)
       \/ \E t \in Threads : CtLoad(t)
       \/ \E t \in Threads : CtCompileTest(t)
       \/ \E t \in Threads : CtCompile(t)
       \/ \E t \in Threads : CtTrieTest(t)
       \/ \E t \in Threads : CtTrieBuild(t)
       \/ \E t \in Threads : CtSetLoaded(t)
       \/ \E t \in Threads : CtMatch(t)
    /\ UNCHANGED <<now, vicVars, sc_ret, sc_lastset, trie_ret, store_ret, cls_pc,
                   cls_ret, cls_first, vic_lock, vic_threads, sc_threads, sc_max,
                   sc_calls, dmVars>>

SpecClsThreads == InitClsThreads /\ [][NextClsThreads]_vars

\* What the matching of a thread's call reads has been built: every service
\* has its matcher and, for get_service_name, the trie holds the domains.
CtReady(t) ==
    /\ DOMAIN compiled_patterns = DOMAIN URL_PATTERNS
    /\ cls_threads[t].op = "get_service_name" => trie_initialized

MaxEntries == 3

\* The queue without the entry at index (counted from 0).
WithoutIndex(queue, index) ==
    [k \in 1..(Len(queue) - 1) |-> IF k <= index THEN queue[k] ELSE queue[k + 1]]

\* DownloadManager.remove_from_queue(index).
RemoveFromQueue(queue, index) ==
    IF 0 <= index /\ index < Len(queue) THEN WithoutIndex(queue, index) ELSE queue

\* DownloadManager.process_queue starting the entry at the end of the queue.
ProcessQueueLast(queue, current) ==
    IF queue = <<>>
    THEN [runnable |-> 0, current |-> current]
    ELSE [runnable |-> queue[Len(queue)], current |-> queue[Len(queue)]]

\* DownloadManager.process_queue(): the runnable it returns (0 for None),
\* made from the entry at the head of the queue, is the current download.
ProcessQueue(queue, current) ==
    IF queue = <<>>
    THEN [runnable |-> 0, current |-> current]
    ELSE [runnable |-> queue[1], current |-> queue[1]]

\* DownloadManager.on_download_finished(success, message, filename): the url
\* of the current download is recorded, the head of the queue is popped if
\* there is one, and the current download is None.
OnDownloadFinished(queue, current) ==
    [queue |-> IF queue # <<>> THEN Tail(queue) ELSE queue,
     removed |-> IF queue # <<>> THEN queue[1] ELSE 0,
     credited |-> current,
     current |-> 0]

\* start_downloads of the window after its test of the queue: the controls
\* and the start button are disabled and the runnable of process_queue is
\* handed to the thread pool.
StartRunnable(queue, current, pool) ==
    LET p == ProcessQueue(queue, current) IN
    [current |-> p.current,
     pool |-> IF p.runnable # 0 THEN pool \cup {p.runnable} ELSE pool,
     started |-> p.runnable]

\* add_to_queue of the window with a url that is_valid accepts: a new entry
\* is appended.
GuiAddToQueue ==
    /\ dm_added < MaxEntries
    /\ dm_added' = dm_added + 1
    /\ download_queue' = Append(download_queue, dm_added + 1)
    /\ dm_ret' = DmRet("add_to_queue", 0, 0, 0)
    /\ UNCHANGED <<current_download, thread_pool, start_button, dm_started>>

\* A click on the start button while it is enabled: start_downloads of the
\* window.
GuiStartDownloads ==
    /\ start_button
    /\ IF download_queue = <<>>
       THEN /\ dm_ret' = DmRet("start_downloads", 0, 0, 0)
            /\ UNCHANGED <<current_download, thread_pool, start_button,
                           dm_started>>
       ELSE \E r \in {StartRunnable(download_queue, current_download, thread_pool)} :
            /\ current_download' = r.current
            /\ thread_pool' = r.pool
            /\ start_button' = FALSE
            /\ dm_started' = dm_started \cup {r.started}
            /\ dm_ret' = DmRet("start_downloads", r.started, 0, 0)
    /\ UNCHANGED <<download_queue, dm_added>>

\* The finished signal of runnable d reaches the window:
\* on_download_finished of the window calls the manager's, then enables the
\* controls if the queue is empty and starts the next download otherwise.
GuiOnDownloadFinished(d) ==
    /\ d \in thread_pool
    /\ \E f \in {OnDownloadFinished(download_queue, current_download)} :
       /\ download_queue' = f.queue
       /\ IF f.queue = <<>>
          THEN /\ current_download' = f.current
               /\ thread_pool' = thread_pool \ {d}
               /\ start_button' = TRUE
               /\ dm_started' = dm_started
               /\ dm_ret' = DmRet("on_download_finished", 0, d, f.removed)
          ELSE \E r \in {StartRunnable(f.queue, f.current, thread_pool \ {d})} :
               /\ current_download' = r.current
               /\ thread_pool' = r.pool
               /\ start_button' = FALSE
               /\ dm_started' = dm_started \cup {r.started}
               /\ dm_ret' = DmRet("on_download_finished", r.started, d, f.removed)
    /\ UNCHANGED dm_added

\* remove_selected of the window with the row selected in the list.
GuiRemoveSelected(row) ==
    /\ row < Len(download_queue)
    /\ download_queue' = RemoveFromQueue(download_queue, row)
    /\ dm_ret' = DmRet("remove_from_queue", 0, 0, download_queue[row + 1])
    /\ UNCHANGED <<current_download, thread_pool, start_button, dm_added,
                   dm_started>>

\* clear_queue of the window, the question answered with yes.
GuiClearQueue ==
    /\ download_queue # <<>>
    /\ download_queue' = <<>>
    /\ dm_ret' = DmRet("clear_queue", 0, 0, 0)
    /\ UNCHANGED <<current_download, thread_pool, start_button, dm_added,
                   dm_started>>

\* cancel_download of the window: the current runnable is told to stop and
\* reports finished later, as every runnable does.
GuiCancelDownload ==
    /\ dm_ret.op # "cancel_download"
    /\ dm_ret' = DmRet("cancel_download", 0, 0, 0)
    /\ UNCHANGED <<download_queue, current_download, thread_pool, start_button,
                   dm_added, dm_started>>

InitDm ==
    /\ now = 0
    /\ VicInit
    /\ ScInit
    /\ TrieInit
    /\ URL_PATTERNS = BuiltinPatterns
    /\ cfg_file = AbsentFile
    /\ store_ret = StoreRet("init", FALSE)
    /\ ClsInit
    /\ ThInit

NextDm ==
    /\ \/ GuiAddToQueue
       \/ GuiStartDownloads
       \/ \E d \in 1..MaxEntries : GuiOnDownloadFinished(d)
       \/ \E row \in 0..(MaxEntries - 1) : GuiRemoveSelected(row)
       \/ GuiClearQueue
       \/ GuiCancelDownload
    /\ UNCHANGED <<now, vicVars, scVars, trieVars, storeVars, clsVars, vic_lock,
                   vic_threads, sc_threads, cls_threads, cls_counts, sc_max,
                   sc_calls>>

SpecDm == InitDm /\ [][NextDm]_vars

\* C38: the entry that on_download_finished removes from the queue is the
\* entry whose download was started by process_queue and has just reported
\* finished, whatever was added, removed and cleared while it ran.
C38_FinishedIsRemoved ==
    (dm_ret.op = "on_download_finished" /\ dm_ret.removed # 0)
        => /\ dm_ret.removed = dm_ret.finished
           /\ dm_ret.removed \in dm_started

\* A runnable in the thread pool reports finished sooner or later: run()
\* emits the finished signal on each of its paths, and the signal is
\* delivered to the window.
DmFinish == \E d \in 1..MaxEntries : GuiOnDownloadFinished(d)

SpecDmLive == InitDm /\ [][NextDm]_vars /\ WF_dmVars(DmFinish)

\* Entry e is in the queue.
InQueue(e) == \E k \in 1..Len(download_queue) : download_queue[k] = e

\* current_download is set exactly while one started download has not yet
\* reported finished, and it is that download.
OneRunning ==
    /\ (current_download # 0) <=> (thread_pool # {})
    /\ thread_pool \subseteq {current_download}

\* A step that starts a download starts the entry at the head of the queue,
\* and starts it when no download runs or in the handler of the finished
\* signal of the one that ran.
StartsHeadAfterFinish ==
    \A d \in thread_pool' \ thread_pool :
        /\ download_queue' # <<>>
        /\ d = download_queue'[1]
        /\ current_download' = d
        /\ thread_pool' = {d}
        /\ \/ thread_pool = {}
           \/ /\ dm_ret'.op = "on_download_finished"
              /\ thread_pool = {dm_ret'.finished}

\* C39: one download at a time, in queue order: current_download is set
\* exactly while a started download has not reported finished; a download is
\* started for the entry at the head of the queue, and only when none runs or
\* on the finish of the previous one; and while downloads run every entry of
\* the queue is eventually started unless it leaves the queue.
C39_OneAtATime ==
    /\ []OneRunning
    /\ [][StartsHeadAfterFinish]_vars
    /\ \A e \in 1..MaxEntries :
          (InQueue(e) /\ current_download # 0)
             ~> (~InQueue(e) \/ e \in dm_started)

\* The finish of one download has started the next: the entry that was
\* second in the queue is the current download.
C39_Witness ==
    /\ dm_ret.op = "on_download_finished"
    /\ dm_ret.started # 0
    /\ dm_ret.removed = dm_ret.finished
    /\ dm_ret.started # dm_ret.finished
    /\ current_download = dm_ret.started
    /\ thread_pool = {dm_ret.started}
    /\ download_queue[1] = dm_ret.started
    /\ ~start_button

====
